---- MODULE Spec2Model ----
(***************************************************************************)
(* Model of the uStore -> MDSF migration pipeline: the orchestrator        *)
(* (orchestrator.py) and the step scripts it drives (store_filter.py,      *)
(* SEO_generator.py, asset_linker.py, fields_mapper.py, packager.py).      *)
(***************************************************************************)
EXTENDS Integers, Sequences, FiniteSets, TLC

VARIABLES
    config,           \* MigrationPipeline.config (after load_config)
    fs,               \* data files that exist on disk, as <<directory, name>>
    pc,               \* position of main()/run()
    blk,              \* index of the "if start_from_step <= k" block run() is at
    start_from_step,  \* the --start-from argument
    state,            \* MigrationPipeline.state
    current_file,     \* local of run()
    final_package,    \* local of run()
    calls,            \* history: the step functions run() has called
    banners,          \* history: banners printed by run()
    hint,             \* history: the index printed after "--start-from"
    exit_code,        \* exit code of main()
    \* one step script, run on its own
    disk,             \* path -> content of the files the script reads and writes
    old_disk,         \* history: disk when the script was started
    argv,             \* the script's arguments
    phase,            \* "ready" before the script has run, "done" after
    ret,              \* what the step function returned: "True", "False", "raised"
    script_exit,      \* the script's exit code
    report            \* what the step function printed as its report

pipeVars == <<config, fs, pc, blk, start_from_step, state, current_file,
              final_package, calls, banners, hint, exit_code>>

scriptVars == <<disk, old_disk, argv, phase, ret, script_exit, report>>

vars == <<pipeVars, scriptVars>>

-----------------------------------------------------------------------------
(* Values *)

None == <<>>                 \* Python None (a path is a pair, so they compare)
Unbound == <<"unbound">>     \* a local that was never assigned
Raised == <<"raised">>       \* a step function left by an exception
NoHint == 0 - 100            \* nothing printed after "--start-from"
NoExit == 0 - 1              \* main() has not exited

Steps == 0..4
StepName == <<"filter", "seo_generation", "asset_linking", "mdsf_mapping", "packaging">>
Key(k) == StepName[k + 1]

scripts_dir(name) == <<"scripts", name>>
project_dir(name) == <<"project", name>>

-----------------------------------------------------------------------------
(* Configuration: load_config *)

default_config ==
    [ store_id |-> 70,
      store_name |-> "AFC Urgent Care",
      use_auto_thumbnail |-> TRUE,
      test_mode |-> FALSE,
      test_product_limit |-> 1,
      paths |-> [ assets_dir |-> "static_assets",
                  thumbnails_dir |-> "static_assets_thumbnails",
                  output_dir |-> "../output" ],
      database |-> [ server |-> "SIS-SQL\\XMPIE", database |-> "uStore",
                     user |-> "XMPieUStore", password |-> "uStore1" ],
      steps |-> [ filter |-> [ enabled |-> TRUE, script |-> "store_filter.py",
                               input |-> "uStore_Complete_Export.csv",
                               output |-> "Store_Export.csv" ],
                  seo_generation |-> [ enabled |-> TRUE, script |-> "SEO_generator.py",
                                       output |-> "with_seo.csv" ],
                  asset_linking |-> [ enabled |-> TRUE, script |-> "asset_linker.py",
                                      output |-> "with_assets.csv" ],
                  mdsf_mapping |-> [ enabled |-> TRUE, script |-> "fields_mapper.py",
                                     output |-> "mdsf_import.csv" ],
                  packaging |-> [ enabled |-> TRUE, script |-> "packager.py",
                                  output |-> "MDSF_Import_Package.zip" ] ] ]

\* config_file: [exists |-> BOOLEAN, doc |-> the JSON object it holds].
\* dict.update replaces top-level keys only.
load_config(config_file) ==
    IF config_file.exists
    THEN [ k \in DOMAIN default_config \cup DOMAIN config_file.doc |->
             IF k \in DOMAIN config_file.doc THEN config_file.doc[k] ELSE default_config[k] ]
    ELSE default_config

\* The configuration files the model draws from.
StartSlack == 1              \* how far --start-from ranges outside 0..4
StartValues == (0 - StartSlack)..(4 + StartSlack)

PackageOutputs == {"MDSF_Import_Package.zip", "custom_package.zip"}

StepsDoc(E, o) ==
    [ n \in DOMAIN default_config.steps |->
        [ default_config.steps[n] EXCEPT
            !.enabled = (n \in E),
            !.output = IF n = "packaging" THEN o ELSE @ ] ]

Restrict(f, S) == [ n \in S |-> f[n] ]

ConfigFiles ==
    { [exists |-> FALSE, doc |-> [steps |-> default_config.steps]] }
    \cup { [exists |-> TRUE, doc |-> [steps |-> StepsDoc(E, "MDSF_Import_Package.zip")]] :
             E \in SUBSET DOMAIN default_config.steps }
    \cup { [exists |-> TRUE, doc |-> [steps |-> StepsDoc(DOMAIN default_config.steps, o)]] :
             o \in PackageOutputs }
    \cup { [exists |-> TRUE,
            doc |-> [steps |-> Restrict(default_config.steps,
                                        DOMAIN default_config.steps \ {n})]] :
             n \in DOMAIN default_config.steps }
    \cup { [exists |-> TRUE, doc |-> [paths |-> [output_dir |-> "out"]]],
           [exists |-> TRUE, doc |-> [test_mode |-> TRUE]] }

\* The data files a run can find on disk when it starts.
DataFiles ==
    { project_dir(default_config.steps.filter.input) }
    \cup { scripts_dir(default_config.steps[n].output) : n \in DOMAIN default_config.steps }
    \cup { scripts_dir(o) : o \in PackageOutputs }

-----------------------------------------------------------------------------
(* The step scripts as the orchestrator sees them: a child process that gets
   paths on its command line, exits with a code and may have written a file. *)

HasStep(k) == Key(k) \in DOMAIN config.steps
step_config(k) == config.steps[Key(k)]
HasAssetPaths == {"assets_dir", "thumbnails_dir"} \subseteq DOMAIN config.paths

\* The file step k's script writes when it succeeds. Steps 0..3 are handed
\* str(output_file) on the command line; packager.py is handed no output name
\* and writes "MDSF_Import_Package.zip" into its working directory, scripts_dir.
ScriptWrites(k) ==
    IF k = 4 THEN scripts_dir("MDSF_Import_Package.zip")
    ELSE scripts_dir(step_config(k).output)

\* Every script returns failure when its input file does not exist, may fail on
\* its data otherwise, and exits 0 only after writing its output.
Subprocess(k, input) ==
    IF input \notin fs
    THEN { [rc |-> 1, fs |-> fs] }
    ELSE { [rc |-> 1, fs |-> fs], [rc |-> 0, fs |-> fs \cup {ScriptWrites(k)}] }

\* run_python_script: FileNotFoundError when the script file is missing (read
\* from the environment when the step runs), Exception on a non-zero exit.
run_python_script(k, input) ==
    { [ok |-> FALSE, fs |-> fs, executed |-> FALSE, returncode |-> NoExit] }
    \cup { [ok |-> r.rc = 0, fs |-> r.fs, executed |-> TRUE, returncode |-> r.rc] :
             r \in Subprocess(k, input) }

\* What a step function leaves behind: its return value (or Raised), the disk,
\* whether the script was executed and the return code it gave, whether the
\* console prompt was shown and what input() returned.
NoResponse == "<no response>"
Outcome(value, files, executed, prompted) ==
    [ret |-> value, fs |-> files, executed |-> executed, prompted |-> prompted,
     response |-> NoResponse, returncode |-> NoExit]
\* response = input(...)
Answered(o, r) == [o EXCEPT !.response = r]

\* "if output_file.exists(): return str(output_file) else: raise"
AfterScript(o, output_file, prompted) ==
    [(IF o.ok /\ output_file \in o.fs
      THEN Outcome(output_file, o.fs, o.executed, prompted)
      ELSE Outcome(Raised, o.fs, o.executed, prompted)) EXCEPT !.returncode = o.returncode]

Responses == {"y", "Y", "n", ""}
response_lower(r) == IF r = "Y" THEN "y" ELSE r

\* (mutant of step_0_filter: the script is run whatever the answer is)
step_0_filter_RunsWhateverTheAnswer ==
    IF ~HasStep(0) THEN { Outcome(Raised, fs, FALSE, FALSE) }
    ELSE IF ~step_config(0).enabled
    THEN IF project_dir(step_config(0).input) \in fs
         THEN { Outcome(project_dir(step_config(0).input), fs, FALSE, FALSE) }
         ELSE { Outcome(Raised, fs, FALSE, FALSE) }
    ELSE IF scripts_dir(step_config(0).output) \in fs
    THEN { Answered(AfterScript(o, scripts_dir(step_config(0).output), TRUE), r) :
             o \in run_python_script(0, project_dir(step_config(0).input)), r \in Responses }
    ELSE { AfterScript(o, scripts_dir(step_config(0).output), FALSE) :
             o \in run_python_script(0, project_dir(step_config(0).input)) }

step_0_filter ==
    IF ~HasStep(0) THEN { Outcome(Raised, fs, FALSE, FALSE) }
    ELSE IF ~step_config(0).enabled
    THEN IF project_dir(step_config(0).input) \in fs
         THEN { Outcome(project_dir(step_config(0).input), fs, FALSE, FALSE) }
         ELSE { Outcome(Raised, fs, FALSE, FALSE) }
    ELSE LET output_file == scripts_dir(step_config(0).output)
             input_file == project_dir(step_config(0).input)
         IN IF output_file \in fs
            THEN { Outcome(Raised, fs, FALSE, TRUE) }      \* input() raises EOFError
                 \cup { Answered(Outcome(output_file, fs, FALSE, TRUE), r) :
                          r \in {x \in Responses : response_lower(x) # "y"} }
                 \cup { Answered(AfterScript(o, output_file, TRUE), r) :
                          o \in run_python_script(0, input_file),
                          r \in {x \in Responses : response_lower(x) = "y"} }
            ELSE { AfterScript(o, output_file, FALSE) :
                     o \in run_python_script(0, input_file) }

\* Steps 1..3 share one shape; asset linking also reads config['paths'].
ChainStep(k, input_file, keys_ok) ==
    IF ~HasStep(k) THEN { Outcome(Raised, fs, FALSE, FALSE) }
    ELSE IF ~step_config(k).enabled THEN { Outcome(input_file, fs, FALSE, FALSE) }
    ELSE IF ~keys_ok THEN { Outcome(Raised, fs, FALSE, FALSE) }
    ELSE { AfterScript(o, scripts_dir(step_config(k).output), FALSE) :
             o \in run_python_script(k, input_file) }

step_2_seo_generation(input_file) == ChainStep(1, input_file, TRUE)
step_3_asset_linking(input_file) == ChainStep(2, input_file, HasAssetPaths)
step_4_mdsf_mapping(input_file) == ChainStep(3, input_file, TRUE)

step_5_packaging(input_file) ==
    IF ~HasStep(4) THEN { Outcome(Raised, fs, FALSE, FALSE) }
    ELSE IF ~step_config(4).enabled THEN { Outcome(None, fs, FALSE, FALSE) }
    ELSE IF ~HasAssetPaths THEN { Outcome(Raised, fs, FALSE, FALSE) }
    ELSE { AfterScript(o, scripts_dir(step_config(4).output), FALSE) :
             o \in run_python_script(4, input_file) }

StepOutcomes(k) ==
    CASE k = 0 -> step_0_filter
      [] k = 1 -> step_2_seo_generation(current_file)
      [] k = 2 -> step_3_asset_linking(current_file)
      [] k = 3 -> step_4_mdsf_mapping(current_file)
      [] k = 4 -> step_5_packaging(current_file)

-----------------------------------------------------------------------------
(* Files as the step scripts see them *)

NoFile == [kind |-> "absent"]
Csv(columns, rows) == [kind |-> "csv", columns |-> columns, rows |-> rows]
Exists(d, path) == d[path].kind # "absent"
HasColumn(df, col) == \E i \in 1..Len(df.columns) : df.columns[i] = col

\* No script is running on its own (the orchestrator's specification).
ScriptIdle ==
    /\ disk = <<>>
    /\ old_disk = <<>>
    /\ argv = <<>>
    /\ phase = "idle"
    /\ ret = "none"
    /\ script_exit = NoExit
    /\ report = <<>>

\* The orchestrator is not running (the step scripts' specifications); pc
\* names the script that is run on its own, "idle" when there is only one.
Standalone(script) ==
    /\ config = default_config
    /\ fs = {}
    /\ pc = script
    /\ blk = 0
    /\ start_from_step = 0
    /\ state = [current_step |-> 0, completed_steps |-> <<>>, failed_steps |-> <<>>]
    /\ current_file = None
    /\ final_package = Unbound
    /\ calls = <<>>
    /\ banners = {}
    /\ hint = NoHint
    /\ exit_code = NoExit
PipelineIdle == Standalone("idle")

-----------------------------------------------------------------------------
(* MigrationPipeline.run and main *)

Init ==
    /\ config \in { load_config(f) : f \in ConfigFiles }
    /\ fs \in SUBSET DataFiles
    /\ pc = "NotStarted"
    /\ blk = 0
    /\ start_from_step = 0
    /\ state = [current_step |-> 0, completed_steps |-> <<>>, failed_steps |-> <<>>]
    /\ current_file = None
    /\ final_package = Unbound
    /\ calls = <<>>
    /\ banners = {}
    /\ hint = NoHint
    /\ exit_code = NoExit
    /\ ScriptIdle

\* (mutant of ExceptHandler: the number of completed steps is recorded
\*  instead of state['current_step'])
ExceptHandlerCountsCompleted(current_step, printed) ==
    /\ state' = [state EXCEPT !.current_step = current_step,
                              !.failed_steps = Append(@, Len(state.completed_steps))]
    /\ banners' = printed \cup {"MIGRATION FAILED!"}
    /\ hint' = Len(state.completed_steps)
    /\ exit_code' = 1
    /\ pc' = "Failed"

\* The "except Exception" handler of run() followed by the one of main():
\* record state['current_step'], print the banner and the resume hint, exit 1.
ExceptHandler(current_step, printed) ==
    /\ state' = [state EXCEPT !.current_step = current_step,
                              !.failed_steps = Append(@, current_step)]
    /\ banners' = printed \cup {"MIGRATION FAILED!"}
    /\ hint' = current_step
    /\ exit_code' = 1
    /\ pc' = "Failed"

\* main() parses --start-from and calls run(); current_file = None.
Run(s) ==
    /\ pc = "NotStarted"
    /\ start_from_step' = s
    /\ current_file' = None
    /\ pc' = "guard"
    /\ UNCHANGED <<config, fs, blk, state, final_package, calls, banners, hint, exit_code>>

\* "if start_from_step <= k" is false: the block is not entered.
Skip(k) ==
    /\ pc = "guard" /\ blk = k
    /\ ~(start_from_step <= k)
    /\ blk' = k + 1
    /\ UNCHANGED <<config, fs, pc, start_from_step, state, current_file,
                   final_package, calls, banners, hint, exit_code>>

\* The fallback input of block k when no earlier block produced a file.
FallbackOk(k) == k = 0 \/ current_file # None \/ HasStep(k - 1)
\* (mutants of FallbackFile: the input is always recomputed from the
\*  configuration; the fallback is looked up in the project directory)
FallbackFileAlwaysConfigured(k) ==
    IF k = 0 THEN current_file
    ELSE scripts_dir(step_config(k - 1).output)
FallbackFileInProjectDir(k) ==
    IF k = 0 \/ current_file # None THEN current_file
    ELSE project_dir(step_config(k - 1).output)
FallbackFile(k) ==
    IF k = 0 \/ current_file # None THEN current_file
    ELSE scripts_dir(step_config(k - 1).output)

\* The block is entered: state['current_step'] = k and the input is settled.
Enter(k) ==
    /\ pc = "guard" /\ blk = k
    /\ start_from_step <= k
    /\ IF FallbackOk(k)
       THEN /\ state' = [state EXCEPT !.current_step = k]
            /\ current_file' = FallbackFile(k)
            /\ pc' = "running"
            /\ UNCHANGED <<banners, hint, exit_code>>
       ELSE /\ ExceptHandler(k, banners)
            /\ UNCHANGED current_file
    /\ UNCHANGED <<config, fs, blk, start_from_step, final_package, calls>>

\* (mutant of StepReturns: the step is appended to completed_steps before its
\*  function is called, so also when it raises)
StepReturns_CompletedBeforeCall(k, o) ==
    /\ fs' = o.fs
    /\ calls' = Append(calls, [step |-> k, input |-> current_file, ret |-> o.ret,
                               executed |-> o.executed, prompted |-> o.prompted,
                               response |-> o.response, returncode |-> o.returncode])
    /\ IF o.ret = Raised
       THEN /\ state' = [state EXCEPT !.completed_steps = Append(@, k),
                                      !.failed_steps = Append(@, state.current_step)]
            /\ banners' = banners \cup {"MIGRATION FAILED!"}
            /\ hint' = state.current_step
            /\ exit_code' = 1
            /\ pc' = "Failed"
            /\ UNCHANGED <<blk, current_file, final_package>>
       ELSE /\ state' = [state EXCEPT !.completed_steps = Append(@, k)]
            /\ IF k = 4
               THEN final_package' = o.ret /\ UNCHANGED current_file
               ELSE current_file' = o.ret /\ UNCHANGED final_package
            /\ blk' = k + 1
            /\ pc' = "guard"
            /\ UNCHANGED <<banners, hint, exit_code>>
    /\ UNCHANGED <<config, start_from_step>>
\* The step function of block k runs to its return or to its exception.
StepReturns(k, o) ==
    /\ fs' = o.fs
    /\ calls' = Append(calls, [step |-> k, input |-> current_file, ret |-> o.ret,
                               executed |-> o.executed, prompted |-> o.prompted,
                               response |-> o.response, returncode |-> o.returncode])
    /\ IF o.ret = Raised
       THEN /\ ExceptHandler(state.current_step, banners)
            /\ UNCHANGED <<blk, current_file, final_package>>
       ELSE /\ state' = [state EXCEPT !.completed_steps = Append(@, k)]
            /\ IF k = 4
               THEN final_package' = o.ret /\ UNCHANGED current_file
               ELSE current_file' = o.ret /\ UNCHANGED final_package
            /\ blk' = k + 1
            /\ pc' = "guard"
            /\ UNCHANGED <<banners, hint, exit_code>>
    /\ UNCHANGED <<config, start_from_step>>
RunStep(k) ==
    /\ pc = "running" /\ blk = k
    /\ \E o \in StepOutcomes(k) : StepReturns(k, o)

\* After the last block: the "MIGRATION COMPLETE!" banner, then the log lines,
\* one of which reads final_package (UnboundLocalError when never assigned).
Finish ==
    /\ pc = "guard" /\ blk = 5
    /\ IF final_package = Unbound
       THEN ExceptHandler(state.current_step, banners \cup {"MIGRATION COMPLETE!"})
       ELSE /\ banners' = banners \cup {"MIGRATION COMPLETE!"}
            /\ pc' = "Completed"
            /\ exit_code' = 0
            /\ UNCHANGED <<state, hint>>
    /\ UNCHANGED <<config, fs, blk, start_from_step, current_file, final_package, calls>>

\* (mutant of Interrupt: the files written so far are removed)
Interrupt_RollsBack ==
    /\ pc = "running"
    /\ fs' = fs \ { calls[i].ret : i \in 1..Len(calls) }
    /\ pc' = "Interrupted"
    /\ exit_code' = 1
    /\ UNCHANGED <<config, blk, start_from_step, state, current_file,
                   final_package, calls, banners, hint>>
\* KeyboardInterrupt while a step is in progress: not an Exception, so run()'s
\* handler is passed over and main() exits 1. The child may have written by then.
Interrupt ==
    /\ pc = "running"
    /\ fs' \in {fs} \cup { o.fs : o \in StepOutcomes(blk) }
    /\ pc' = "Interrupted"
    /\ exit_code' = 1
    /\ UNCHANGED <<config, blk, start_from_step, state, current_file,
                   final_package, calls, banners, hint>>

Next ==
    \/ \E s \in StartValues : Run(s) /\ UNCHANGED scriptVars
    \/ \E k \in Steps : Skip(k) /\ UNCHANGED scriptVars
    \/ \E k \in Steps : Enter(k) /\ UNCHANGED scriptVars
    \/ \E k \in Steps : RunStep(k) /\ UNCHANGED scriptVars
    \/ Finish /\ UNCHANGED scriptVars
    \/ Interrupt /\ UNCHANGED scriptVars

Spec == Init /\ [][Next]_vars

-----------------------------------------------------------------------------
(* The orchestrator's claims *)

FirstStep == IF start_from_step > 0 THEN start_from_step ELSE 0

\* C1: the steps with index >= start_from_step are processed in strictly
\* increasing index order, a step is in progress only when every earlier
\* processed step has returned, and every step after the first processed one
\* receives as input exactly the path the step before it returned.
C1_StepsInOrderAndChained ==
    /\ \A i \in 1..Len(calls) :
         /\ calls[i].step = FirstStep + i - 1
         /\ calls[i].step >= start_from_step
         /\ i > 1 => /\ calls[i - 1].ret # Raised
                     /\ calls[i].input = calls[i - 1].ret
    /\ pc = "running" =>
         /\ Len(calls) = blk - FirstStep
         /\ blk > FirstStep => current_file = calls[Len(calls)].ret
    /\ pc = "Completed" => Len(calls) = 5 - FirstStep

C1_Witness ==
    /\ pc = "Completed"
    /\ Len(calls) = 5
    /\ \A i \in 1..5 : calls[i].executed
    /\ calls[5].input = scripts_dir("mdsf_import.csv")

\* C2: when step i fails, it is the last step of the run, failed_steps = [i],
\* i is not in completed_steps, the resume hint is "--start-from i" and main
\* exits with a non-zero code.
C2_FailureAbortsAndIsRecorded ==
    \A i \in 1..Len(calls) :
        calls[i].ret = Raised =>
            /\ i = Len(calls)
            /\ pc = "Failed"
            /\ state.failed_steps = <<calls[i].step>>
            /\ \A j \in 1..Len(state.completed_steps) :
                   state.completed_steps[j] # calls[i].step
            /\ hint = calls[i].step
            /\ exit_code # NoExit /\ exit_code # 0

C2_Witness ==
    /\ Len(calls) = 3
    /\ calls[3].ret = Raised /\ calls[3].executed
    /\ calls[3].step = 3
    /\ state.completed_steps = <<1, 2>>

\* C3: a run never reports both Completed and Failed, reports Completed only
\* after the packaging step has been processed, ends in Completed or Failed
\* once main has exited, and calls no step twice.
C3_RunStateMachine ==
    /\ ~({"MIGRATION COMPLETE!", "MIGRATION FAILED!"} \subseteq banners)
    /\ "MIGRATION COMPLETE!" \in banners => \E i \in 1..Len(calls) : calls[i].step = 4
    /\ pc = "Failed" => "MIGRATION FAILED!" \in banners
    /\ pc = "Completed" => "MIGRATION COMPLETE!" \in banners
    /\ \A i, j \in 1..Len(calls) : i # j => calls[i].step # calls[j].step

\* C4: a run started at k in 1..4 calls no step below k, hands step k the
\* configured output file of step k-1 in the scripts directory whether or not
\* it exists, and chains the later steps in order.
C4_ResumeUsesPreviousOutput ==
    (pc # "NotStarted" /\ start_from_step \in 1..4) =>
        \A i \in 1..Len(calls) :
            /\ calls[i].step >= start_from_step
            /\ i = 1 => /\ calls[i].step = start_from_step
                        /\ calls[i].input =
                             scripts_dir(step_config(start_from_step - 1).output)
            /\ i > 1 => /\ calls[i].step = calls[i - 1].step + 1
                        /\ calls[i].input = calls[i - 1].ret

C4_Witness ==
    /\ start_from_step = 3
    /\ pc = "Completed"
    /\ Len(calls) = 2
    /\ calls[1].executed
    /\ calls[1].input = scripts_dir("with_assets.csv")

\* C21: when a run is interrupted (KeyboardInterrupt) while a step is in
\* progress, main exits with a non-zero code, run()'s failure handler is not
\* entered, no further step is started, and the output files of the steps that
\* completed before the interruption are still on disk.
CompletedOutputs ==
    { calls[i].ret : i \in { j \in 1..Len(calls) : calls[j].executed /\ calls[j].ret # Raised } }
C21_InterruptExitsKeepsOutputs ==
    /\ [](pc = "Interrupted" =>
            /\ exit_code # 0 /\ exit_code # NoExit
            /\ state.failed_steps = <<>>
            /\ "MIGRATION FAILED!" \notin banners
            /\ "MIGRATION COMPLETE!" \notin banners
            /\ \A i \in 1..Len(calls) : calls[i].ret # Raised
            /\ Len(calls) = Len(state.completed_steps)
            /\ CompletedOutputs \subseteq fs)
    /\ [][pc = "Interrupted" => pc' = "Interrupted" /\ calls' = calls /\ fs' = fs]_vars
C21_Witness ==
    /\ pc = "Interrupted"
    /\ blk = 2
    /\ Len(calls) = 2
    /\ calls[1].executed /\ calls[2].executed
    /\ CompletedOutputs = {scripts_dir("Store_Export.csv"), scripts_dir("with_seo.csv")}
    /\ scripts_dir("with_assets.csv") \in fs

\* the call a step of the run has just added to the history
LastCall == calls'[Len(calls')]
FilterOutputFile == scripts_dir(step_config(0).output)
PromptOnlyWhenFilterOutputExists ==
    LastCall.prompted =>
        /\ LastCall.step = 0
        /\ HasStep(0) /\ step_config(0).enabled
        /\ FilterOutputFile \in fs
\* the answers after which the existing file is used
Declining(declined) ==
    Len(calls') = Len(calls) + 1 =>
        /\ PromptOnlyWhenFilterOutputExists
        /\ (LastCall.prompted /\ LastCall.response \in declined) =>
              /\ ~LastCall.executed
              /\ fs' = fs
              /\ LastCall.ret = FilterOutputFile
ExistingPassedOn(declined) ==
    \A i \in 1..(Len(calls) - 1) :
       (calls[i].prompted /\ calls[i].response \in declined) =>
          calls[i + 1].input = calls[i].ret
\* C23 as stated: a run asks for console input only in the filter step and
\* only when its output file exists; after any answer other than 'y' the
\* filter script is not executed, the disk is left as it is and the existing
\* file is the input of the next step.
C23_AnyAnswerButLowerCaseY ==
    /\ [][Declining(Responses \ {"y"})]_vars
    /\ [](ExistingPassedOn(Responses \ {"y"}))
\* C23, amended: the same for any answer whose lower-case form is not 'y'
\* (after 'y' and after 'Y' the script is run).
C23_AnyAnswerButY ==
    /\ [][Declining({ r \in Responses : response_lower(r) # "y" })]_vars
    /\ [](ExistingPassedOn({ r \in Responses : response_lower(r) # "y" }))
C23_Witness ==
    /\ Len(calls) >= 2
    /\ calls[1].step = 0 /\ calls[1].prompted /\ calls[1].response = "n"
    /\ ~calls[1].executed
    /\ calls[1].ret = FilterOutputFile
    /\ calls[2].step = 1 /\ calls[2].input = FilterOutputFile /\ calls[2].executed

\* the input a run started with --start-from k hands to step k: current_file
\* is None when block k is entered, so it is the configured output of step k-1
\* in the scripts directory (C4)
ResumeInput(k) == scripts_dir(step_config(k - 1).output)
FailedAt(k) ==
    /\ pc = "Failed"
    /\ Len(calls) > 0
    /\ calls[Len(calls)].step = k
    /\ calls[Len(calls)].ret = Raised
\* C24: for every configuration of enabled and disabled steps, when a run
\* started at step 0 fails at step k in 1..4, the input path step k received
\* in that run is the input path a run started with --start-from k hands to
\* step k.
C24_ResumeGetsTheSameInput ==
    \A k \in 1..4 :
       (start_from_step = 0 /\ FailedAt(k)) => calls[Len(calls)].input = ResumeInput(k)
\* with every step before k enabled the two inputs are the same
C24_SameInputWhenPreviousStepEnabled ==
    \A k \in 1..4 :
       (start_from_step = 0 /\ FailedAt(k) /\ step_config(k - 1).enabled)
          => calls[Len(calls)].input = ResumeInput(k)

\* block k of run() was entered in this run, and step k was not completed
StartedNotCompleted(k) ==
    /\ k \in Steps
    /\ start_from_step <= k /\ k <= blk
    /\ \A j \in 1..Len(state.completed_steps) : state.completed_steps[j] # k
\* C25: for every start index, below 0 and above 4 included, the step index a
\* failed run records in failed_steps and prints in the resume hint is the
\* index of a step that was started in that run and did not complete; a run
\* in which no step fails does not end in failure.
C25_FailedStepWasStarted ==
    pc = "Failed" =>
        /\ Len(state.failed_steps) = 1
        /\ hint = state.failed_steps[1]
        /\ StartedNotCompleted(state.failed_steps[1])
\* the same for the start indices up to 4
C25_FailedStepWasStartedUpTo4 ==
    (pc = "Failed" /\ start_from_step <= 4) =>
        /\ Len(state.failed_steps) = 1
        /\ hint = state.failed_steps[1]
        /\ StartedNotCompleted(state.failed_steps[1])

\* the ascending list a, a+1, ..., b-1
Ascending(a, b) == [i \in 1..(IF b > a THEN b - a ELSE 0) |-> a + i - 1]
\* C26: in every state of a run started at index s, completed_steps is the
\* ascending list of the step indices from max(s, 0) up to, and without, the
\* step in progress; failed_steps has at most one element; no step index is
\* in both lists.
C26_CompletedContiguousOneFailure ==
    /\ pc # "NotStarted" =>
          state.completed_steps = Ascending(IF start_from_step > 0 THEN start_from_step ELSE 0, blk)
    /\ Len(state.failed_steps) <= 1
    /\ \A i \in 1..Len(state.completed_steps) :
          \A j \in 1..Len(state.failed_steps) :
             state.completed_steps[i] # state.failed_steps[j]
C26_Witness ==
    /\ start_from_step = 2
    /\ pc = "Failed"
    /\ state.completed_steps = <<2, 3>>
    /\ state.failed_steps = <<4>>
    /\ calls[3].ret = Raised

\* the file whose existence the step function of step k tests after the script
CheckedFile(k) == scripts_dir(step_config(k).output)
ExitZeroSucceeds(steps) ==
    \A i \in 1..Len(calls) :
       (calls[i].step \in steps /\ calls[i].returncode = 0) =>
          /\ CheckedFile(calls[i].step) = ScriptWrites(calls[i].step)
          /\ calls[i].ret = CheckedFile(calls[i].step)
\* C27: for every step and every configured output file name, the file the
\* orchestrator tests for after the script has exited is the file the script
\* was told to write, so a step whose script exits with code 0 is treated as
\* succeeded; this holds for the packaging step too, whose script is not given
\* the configured output name.
C27_ExitZeroIsSuccess == ExitZeroSucceeds(Steps)
\* the same for the steps whose script is given the output path
C27_ExitZeroIsSuccessBeforePackaging == ExitZeroSucceeds(0..3)

-----------------------------------------------------------------------------
(* store_filter.py *)

MaxRows == 2                 \* rows of an input table

Range(f) == { f[i] : i \in DOMAIN f }
Result(value, files) == [ret |-> value, disk |-> files]

FilterInput == "uStore_Complete_Export.csv"
FilterOutput == "Store_Export.csv"

\* pd.read_csv(path, keep_default_na=False) infers the type of each column
\* from its cells: a column whose cells are all whole numbers is int64, one
\* whose cells are all True/False words is bool, any other column (and every
\* column of a table without rows) keeps its text. df.to_csv writes a number
\* in its shortest form and a bool as True or False. (No cell of the tables
\* below is a decimal number.)
IntOf == [v \in {"70", "71", "99", "0", "070"} |->
            CASE v = "70" -> 70 [] v = "71" -> 71 [] v = "99" -> 99 [] v = "0" -> 0
              [] v = "070" -> 70]
IntText == [n \in {70, 71, 99, 0} |->
              CASE n = 70 -> "70" [] n = 71 -> "71" [] n = 99 -> "99" [] n = 0 -> "0"]
TrueWords == {"True", "TRUE", "true"}
FalseWords == {"False", "FALSE", "false"}
dtype(file, col) ==
    IF Len(file.rows) = 0 THEN "object"
    ELSE IF \A i \in 1..Len(file.rows) : file.rows[i][col] \in DOMAIN IntOf THEN "int64"
    ELSE IF \A i \in 1..Len(file.rows) : file.rows[i][col] \in TrueWords \cup FalseWords THEN "bool"
    ELSE "object"
parsed(text, type) ==
    IF type = "int64" THEN IntOf[text] ELSE IF type = "bool" THEN text \in TrueWords ELSE text
read_csv(file) ==
    [columns |-> file.columns,
     dtypes |-> [c \in Range(file.columns) |-> dtype(file, c)],
     rows |-> [i \in 1..Len(file.rows) |->
                 [c \in Range(file.columns) |-> parsed(file.rows[i][c], dtype(file, c))]]]
written_cell(value, type) ==
    IF type = "int64" THEN IntText[value]
    ELSE IF type = "bool" THEN (IF value THEN "True" ELSE "False")
    ELSE value
\* df[rows].to_csv(path, index=False)
frame_to_csv(df, rows) ==
    Csv(df.columns,
        [i \in 1..Len(rows) |->
           [c \in Range(df.columns) |-> written_cell(rows[i][c], df.dtypes[c])]])
\* df[col] == value: a column of another type than the value matches no row
equals(df, row, col, type, value) == df.dtypes[col] = type /\ row[col] = value

\* (mutant of filter_by_store: the file is saved before the rows are counted)
filter_by_store_SavesFirst(d, input_csv, output_csv, store_id, store_name) ==
    IF ~Exists(d, input_csv) THEN Result("False", d)
    ELSE IF (store_id = None \/ store_id = <<0>>) /\ (store_name = None \/ store_name = <<"">>)
    THEN Result("False", d)
    ELSE LET df == read_csv(d[input_csv]) IN
    IF ~HasColumn(df, "uStore_StoreID") /\ ~HasColumn(df, "uStore_StoreName")
    THEN Result("False", d)
    ELSE IF store_id # None /\ ~HasColumn(df, "uStore_StoreID") THEN Result("False", d)
    ELSE IF store_id = None /\ ~HasColumn(df, "uStore_StoreName") THEN Result("False", d)
    ELSE LET ById(r) == equals(df, r, "uStore_StoreID", "int64", store_id[1])
             ByName(r) == equals(df, r, "uStore_StoreName", "object", store_name[1])
             filtered_df == IF store_id # None THEN SelectSeq(df.rows, ById)
                            ELSE SelectSeq(df.rows, ByName)
             saved == [d EXCEPT ![output_csv] = frame_to_csv(df, filtered_df)]
         IN IF Len(filtered_df) = 0 THEN Result("False", saved)
            ELSE IF ~HasColumn(df, "Name") THEN Result("raised", saved)
            ELSE Result("True", saved)

\* filter_by_store; store_id and store_name are None or <<value>>.
filter_by_store(d, input_csv, output_csv, store_id, store_name) ==
    IF ~Exists(d, input_csv) THEN Result("False", d)
    ELSE IF (store_id = None \/ store_id = <<0>>) /\ (store_name = None \/ store_name = <<"">>)
    THEN Result("False", d)
    ELSE LET df == read_csv(d[input_csv]) IN
    IF ~HasColumn(df, "uStore_StoreID") /\ ~HasColumn(df, "uStore_StoreName")
    THEN Result("False", d)
    ELSE IF store_id # None /\ ~HasColumn(df, "uStore_StoreID") THEN Result("False", d)
    ELSE IF store_id = None /\ ~HasColumn(df, "uStore_StoreName") THEN Result("False", d)
    ELSE LET ById(r) == equals(df, r, "uStore_StoreID", "int64", store_id[1])
             ByName(r) == equals(df, r, "uStore_StoreName", "object", store_name[1])
             filtered_df == IF store_id # None THEN SelectSeq(df.rows, ById)
                            ELSE SelectSeq(df.rows, ByName)
             saved == [d EXCEPT ![output_csv] = frame_to_csv(df, filtered_df)]
         IN IF Len(filtered_df) = 0 THEN Result("False", d)
            \* the sample print reads row['Name'] after the file is saved
            ELSE IF ~HasColumn(df, "Name") THEN Result("raised", saved)
            ELSE Result("True", saved)

\* int(filter_value) on the argument strings the model draws from.
FilterValues == {"70", "71", "99", "0", "AFC Urgent Care", "Nowhere", "LIST"}
IsListWord(v) == v = "LIST"          \* sys.argv[3].lower() == 'list'

\* main() of store_filter.py on sys.argv[1:]; the exit code of an uncaught
\* exception is 1.
FilterMain(d, args) ==
    IF Len(args) < 2 THEN [exit |-> 1, ret |-> "none", disk |-> d]
    ELSE IF Len(args) = 3 /\ IsListWord(args[3])
    THEN [exit |-> IF Exists(d, args[1]) THEN 0 ELSE 1, ret |-> "none", disk |-> d]
    ELSE IF Len(args) < 3 THEN [exit |-> 1, ret |-> "none", disk |-> d]
    ELSE LET filter_value == args[3]
             store_id == IF filter_value \in DOMAIN IntOf THEN <<IntOf[filter_value]>> ELSE None
             store_name == IF filter_value \in DOMAIN IntOf THEN None ELSE <<filter_value>>
             r == filter_by_store(d, args[1], args[2], store_id, store_name)
         IN [exit |-> IF r.ret = "True" THEN 0 ELSE 1, ret |-> r.ret, disk |-> r.disk]

StoreIds == {"70", "71", "070"}
StoreNames == {"AFC Urgent Care", "Other Store"}
ProductNames == {"Card", "Flyer"}

FilterColumns ==
    { <<"Name", "uStore_StoreID", "uStore_StoreName">>,
      <<"Name", "uStore_StoreID">>,
      <<"Name", "uStore_StoreName">>,
      <<"uStore_StoreID", "uStore_StoreName">>,
      <<"Name", "uStore_StoreID", "Active">>,
      <<"Name">> }
ActiveWords == {"TRUE", "n/a"}

FilterRows(cols) ==
    { [c \in Range(cols) |->
         CASE c = "Name" -> n
           [] c = "uStore_StoreID" -> i
           [] c = "uStore_StoreName" -> sn
           [] c = "Active" -> a] :
        n \in ProductNames, i \in StoreIds, sn \in StoreNames, a \in ActiveWords }

FilterTables ==
    UNION { { Csv(cols, rows) : rows \in UNION { [1..n -> FilterRows(cols)] : n \in 0..MaxRows } } :
            cols \in FilterColumns }

\* What an earlier run may have left at the output path.
StaleOutput == Csv(<<"Name">>, <<[Name |-> "Stale"]>>)

FilterStart ==
    /\ disk \in { [p \in {FilterInput, FilterOutput} |-> IF p = FilterInput THEN i ELSE o] :
                    i \in {NoFile} \cup FilterTables, o \in {NoFile, StaleOutput} }
    /\ old_disk = disk
    /\ argv \in { <<FilterInput, FilterOutput>> }
                \cup { <<FilterInput, FilterOutput, v>> : v \in FilterValues }
    /\ phase = "ready"
    /\ ret = "none"
    /\ script_exit = NoExit
    /\ report = <<>>
FilterInit == PipelineIdle /\ FilterStart

RunFilter ==
    /\ phase = "ready"
    /\ LET r == FilterMain(disk, argv)
       IN /\ disk' = r.disk
          /\ ret' = r.ret
          /\ script_exit' = r.exit
    /\ old_disk' = disk
    /\ phase' = "done"
    /\ UNCHANGED <<argv, report, pipeVars>>

FilterSpec == FilterInit /\ [][RunFilter]_vars

\* C5: a store identifier that matches zero rows of the input makes
\* filter_by_store return failure and the script exit non-zero, and the output
\* file is as it was before the call (not created, not overwritten).
GivenStoreId == Len(argv) = 3 /\ argv[3] \in DOMAIN IntOf
MatchesZeroRows ==
    /\ Exists(old_disk, FilterInput)
    /\ \A i \in 1..Len(old_disk[FilterInput].rows) :
          ~ (/\ HasColumn(old_disk[FilterInput], "uStore_StoreID")
             /\ old_disk[FilterInput].rows[i]["uStore_StoreID"] \in DOMAIN IntOf
             /\ IntOf[old_disk[FilterInput].rows[i]["uStore_StoreID"]] = IntOf[argv[3]])

C5_ZeroMatchesFailsOutputUntouched ==
    (phase = "done" /\ GivenStoreId /\ MatchesZeroRows) =>
        /\ ret = "False"
        /\ script_exit = 1
        /\ disk[FilterOutput] = old_disk[FilterOutput]

C5_Witness ==
    /\ phase = "done" /\ GivenStoreId /\ MatchesZeroRows
    /\ argv[3] = "99"
    /\ HasColumn(old_disk[FilterInput], "uStore_StoreID")
    /\ Len(old_disk[FilterInput].rows) = 2
    /\ old_disk[FilterOutput] = StaleOutput
    /\ disk[FilterOutput] = StaleOutput

\* C11: on success the file written by filter_by_store holds exactly the input
\* rows whose uStore_StoreID is the given store id (or, when no id is given,
\* whose uStore_StoreName is the given name), in input order, every cell as it
\* was in the input file.
FilterSucceeded == phase = "done" /\ ret = "True" /\ Len(argv) = 3
IsGivenStore(row) ==
    IF argv[3] \in DOMAIN IntOf
    THEN row["uStore_StoreID"] \in DOMAIN IntOf
         /\ IntOf[row["uStore_StoreID"]] = IntOf[argv[3]]
    ELSE row["uStore_StoreName"] = argv[3]
C11_OutputIsExactlyTheMatchingRows ==
    FilterSucceeded =>
        /\ disk[FilterOutput].kind = "csv"
        /\ disk[FilterOutput].columns = old_disk[FilterInput].columns
        /\ disk[FilterOutput].rows =
              SelectSeq(old_disk[FilterInput].rows, LAMBDA row : IsGivenStore(row))
C11_Witness ==
    /\ FilterSucceeded
    /\ Len(old_disk[FilterInput].rows) = 2
    /\ Len(disk[FilterOutput].rows) = 1
    /\ HasColumn(old_disk[FilterInput], "Active")
    /\ old_disk[FilterInput].rows[1]["Active"] = "TRUE"
    /\ disk[FilterOutput].rows[1]["Active"] = "True"

-----------------------------------------------------------------------------
(* The orchestrator's filter step with store_filter.py as its child process:
   step_0_filter hands the script the configured input, output and store id,
   and run_python_script raises on a non-zero exit. The files the orchestrator
   sees (fs) are those of the script's disk. *)

FilesOn(d) ==
    { project_dir(FilterInput) : x \in { y \in {FilterInput} : Exists(d, y) } }
    \cup { scripts_dir(FilterOutput) : x \in { y \in {FilterOutput} : Exists(d, y) } }

FilterStepInit ==
    /\ config = default_config
    /\ disk \in { [p \in {FilterInput, FilterOutput} |-> IF p = FilterInput THEN i ELSE o] :
                    i \in {NoFile} \cup FilterTables, o \in {NoFile, StaleOutput} }
    /\ fs = FilesOn(disk)
    /\ pc = "NotStarted"
    /\ blk = 0
    /\ start_from_step = 0
    /\ state = [current_step |-> 0, completed_steps |-> <<>>, failed_steps |-> <<>>]
    /\ current_file = None
    /\ final_package = Unbound
    /\ calls = <<>>
    /\ banners = {}
    /\ hint = NoHint
    /\ exit_code = NoExit
    /\ old_disk = disk
    /\ argv = <<>>
    /\ phase = "ready"
    /\ ret = "none"
    /\ script_exit = NoExit
    /\ report = <<>>

\* step_0_filter returns or raises without running the script: the script
\* file is missing, input() raises EOFError, or the answer is not y
FilterNotRun ==
    /\ pc = "running" /\ blk = 0
    /\ \E o \in { Outcome(Raised, fs, FALSE, scripts_dir(FilterOutput) \in fs) }
                 \cup { Answered(Outcome(scripts_dir(FilterOutput), fs, FALSE, TRUE), r) :
                          r \in { x \in Responses : /\ scripts_dir(FilterOutput) \in fs
                                                   /\ response_lower(x) # "y" } } :
          StepReturns(0, o)
    /\ UNCHANGED scriptVars

\* step_0_filter runs store_filter.py <input> <output> <store_id>
FilterRun ==
    /\ pc = "running" /\ blk = 0
    /\ phase = "ready"
    /\ \E r \in { FilterMain(disk, <<FilterInput, FilterOutput, IntText[config.store_id]>>) } :
          /\ disk' = r.disk
          /\ ret' = r.ret
          /\ script_exit' = r.exit
          /\ \E answer \in IF scripts_dir(FilterOutput) \in fs
                            THEN { x \in Responses : response_lower(x) = "y" }
                            ELSE { NoResponse } :
                StepReturns(0, Answered(AfterScript([ok |-> r.exit = 0, fs |-> FilesOn(r.disk),
                                                     executed |-> TRUE, returncode |-> r.exit],
                                                    scripts_dir(FilterOutput),
                                                    scripts_dir(FilterOutput) \in fs),
                                        answer))
    /\ argv' = <<FilterInput, FilterOutput, IntText[config.store_id]>>
    /\ old_disk' = disk
    /\ phase' = "done"
    /\ UNCHANGED report

FilterStepNext ==
    \/ Run(0) /\ UNCHANGED scriptVars
    \/ Enter(0) /\ UNCHANGED scriptVars
    \/ FilterNotRun
    \/ FilterRun
    \/ \E k \in 1..4 : Enter(k) /\ UNCHANGED scriptVars
    \/ \E k \in 1..4 : RunStep(k) /\ UNCHANGED scriptVars
    \/ Finish /\ UNCHANGED scriptVars

FilterStepSpec == FilterStepInit /\ [][FilterStepNext]_vars

\* C17: a store filter that matches zero rows is not fatal: it does not put
\* the orchestrator's run into the Failed state and the remaining steps are
\* not aborted.
C17_ZeroMatchesNotFatal ==
    (phase = "done" /\ GivenStoreId /\ MatchesZeroRows) =>
        /\ pc # "Failed"
        /\ state.failed_steps = <<>>
        /\ "MIGRATION FAILED!" \notin banners
        /\ exit_code \in {NoExit, 0}

-----------------------------------------------------------------------------
(* SEO_generator.py. Text is a sequence of one-character strings, so that
   slicing, searching, case folding and sorting are what the code does. *)

UpperChars == <<"A", "B", "C", "D", "E", "F", "G", "H", "I", "J", "K", "L", "M", "N", "O", "P", "Q", "R", "S", "T", "U", "V", "W", "X", "Y", "Z">>
LowerChars == <<"a", "b", "c", "d", "e", "f", "g", "h", "i", "j", "k", "l", "m", "n", "o", "p", "q", "r", "s", "t", "u", "v", "w", "x", "y", "z">>
DigitChars == {"0", "1", "2", "3", "4", "5", "6", "7", "8", "9"}
\* the printable characters in code point order (the backquote left out): the
\* order in which sorted() compares characters
AsciiChars ==
    <<" ", "!", "\"", "#", "$", "%", "&", "'", "(", ")", "*", "+", ",", "-", ".", "/", "0", "1", "2", "3", "4", "5", "6", "7", "8", "9", ":", ";", "<", "=", ">", "?", "@", "A", "B", "C", "D", "E", "F", "G", "H", "I", "J", "K", "L", "M", "N", "O", "P", "Q", "R", "S", "T", "U", "V", "W", "X", "Y", "Z", "[", "\\", "]", "^", "_", "a", "b", "c", "d", "e", "f", "g", "h", "i", "j", "k", "l", "m", "n", "o", "p", "q", "r", "s", "t", "u", "v", "w", "x", "y", "z", "{", "|", "}", "~">>
UpperSet == Range(UpperChars)
LowerSet == Range(LowerChars)
LowerOf == [c \in UpperSet |-> LowerChars[CHOOSE i \in DOMAIN UpperChars : UpperChars[i] = c]]
OrdOf == [c \in Range(AsciiChars) |-> CHOOSE i \in DOMAIN AsciiChars : AsciiChars[i] = c]
IsUpper(c) == c \in UpperSet
IsLower(c) == c \in LowerSet
IsDigit(c) == c \in DigitChars
Space == {" "}
IsSpace(c) == c \in Space
IsWord(c) == IsUpper(c) \/ IsLower(c) \/ IsDigit(c) \/ c = "_"
LowerC(c) == IF c \in UpperSet THEN LowerOf[c] ELSE c
Ord(c) == OrdOf[c]

Min(S) == CHOOSE x \in S : \A y \in S : x <= y
Max(S) == CHOOSE x \in S : \A y \in S : x >= y

\* str.lower, "sub in s", str.startswith / endswith, str.strip
lower(s) == [i \in 1..Len(s) |-> LowerC(s[i])]
Contains(s, sub) ==
    \/ sub = <<>>
    \/ \E i \in 1..(Len(s) - Len(sub) + 1) :
          s[i] = sub[1] /\ SubSeq(s, i, i + Len(sub) - 1) = sub
StartsWith(s, p) == Len(s) >= Len(p) /\ SubSeq(s, 1, Len(p)) = p
EndsWith(s, p) == Len(s) >= Len(p) /\ SubSeq(s, Len(s) - Len(p) + 1, Len(s)) = p
strip(s) ==
    LET keep == { i \in 1..Len(s) : ~IsSpace(s[i]) }
        first == CHOOSE i \in keep : \A m \in 1..(i - 1) : IsSpace(s[m])
        last == CHOOSE i \in keep : \A m \in (i + 1)..Len(s) : IsSpace(s[m])
    IN IF keep = {} THEN <<>> ELSE SubSeq(s, first, last)

\* str.replace(old, new): occurrences left to right, not overlapping
RECURSIVE replace(_, _, _)
replace(s, old, new) ==
    LET at == { i \in 1..(Len(s) - Len(old) + 1) : SubSeq(s, i, i + Len(old) - 1) = old }
    IN IF at = {} THEN s
       ELSE SubSeq(s, 1, Min(at) - 1) \o new
            \o replace(SubSeq(s, Min(at) + Len(old), Len(s)), old, new)

\* str.split(sep) on a one-character separator
RECURSIVE split(_, _)
split(s, sep) ==
    LET at == { i \in 1..Len(s) : s[i] = sep }
    IN IF at = {} THEN <<s>>
       ELSE <<SubSeq(s, 1, Min(at) - 1)>> \o split(SubSeq(s, Min(at) + 1, Len(s)), sep)

\* str.split(): on runs of whitespace, no empty words
RECURSIVE split_words(_)
split_words(s) ==
    LET t == strip(s)
        sp == { i \in 1..Len(t) : IsSpace(t[i]) }
    IN IF t = <<>> THEN <<>>
       ELSE IF sp = {} THEN <<t>>
       ELSE <<SubSeq(t, 1, Min(sp) - 1)>> \o split_words(SubSeq(t, Min(sp), Len(t)))

\* sep.join(list)
RECURSIVE join(_, _)
join(list, sep) ==
    IF Len(list) = 0 THEN <<>>
    ELSE IF Len(list) = 1 THEN list[1]
    ELSE list[1] \o sep \o join(Tail(list), sep)

\* s < t as Python compares str
Less(s, t) ==
    LET n == IF Len(s) < Len(t) THEN Len(s) ELSE Len(t)
        d == { i \in 1..n : s[i] # t[i] }
    IN IF d = {} THEN Len(s) < Len(t) ELSE Ord(s[Min(d)]) < Ord(t[Min(d)])

\* sorted(list(set))
RECURSIVE sorted(_)
sorted(S) ==
    IF S = {} THEN <<>>
    ELSE LET m == CHOOSE x \in S : \A y \in S \ {x} : Less(x, y)
         IN <<m>> \o sorted(S \ {m})

\* s.rfind(c), as a 0-based index, -1 when absent
rfind(s, c) ==
    LET at == { i \in 1..Len(s) : s[i] = c }
        last == CHOOSE i \in at : \A m \in (i + 1)..Len(s) : s[m] # c
    IN IF at = {} THEN 0 - 1 ELSE last - 1

\* clean_text
clean_text(text) ==
    IF text = <<>> THEN <<>>
    ELSE LET t == strip(text)
             u == IF StartsWith(t, <<"\"">>) /\ EndsWith(t, <<"\"">>)
                  THEN SubSeq(t, 2, Len(t) - 1) ELSE t
         IN replace(u, <<"\"", "\"">>, <<"\"">>)

\* A pattern is a sequence of items: a character class repeated min..max times
\* (max < 0: no upper limit), a word boundary \b, or a group repeated any
\* number of times (?:...)*. Repetition is greedy and backs off.
Fail == 0 - 1
NoLimit == 0 - 1
Class(chars, min, max) == [kind |-> "class", chars |-> chars, min |-> min, max |-> max, items |-> <<>>]
Boundary == [kind |-> "boundary", chars |-> {}, min |-> 0, max |-> 0, items |-> <<>>]
Star(items) == [kind |-> "star", chars |-> {}, min |-> 0, max |-> 0, items |-> items]
\* a literal character, and the same under re.IGNORECASE
Lit(c) == Class({c}, 1, 1)
AnyCase(c) == Class({ d \in Range(AsciiChars) : LowerC(d) = LowerC(c) }, 1, 1)
Word(text) == [i \in 1..Len(text) |-> AnyCase(text[i])]

At(s, i) == IF i >= 1 /\ i <= Len(s) THEN s[i] ELSE ""
\* how many characters of the class follow from position i
RunLength(s, i, chars) ==
    LET stop == { m \in i..Len(s) : s[m] \notin chars }
    IN IF stop = {} THEN Len(s) - i + 1 ELSE Min(stop) - i

\* The index of the last character of the match of items at position i, as the
\* backtracking matcher finds it (i - 1 for an empty match), or Fail.
RECURSIVE match(_, _, _)
match(items, s, i) ==
    IF items = <<>> THEN i - 1
    ELSE LET it == Head(items)
             rest == Tail(items)
             run == RunLength(s, i, it.chars)
             most == IF it.max >= 0 /\ run > it.max THEN it.max ELSE run
             ends == { <<n, match(rest, s, i + n)>> : n \in it.min..most }
             good == { e \in ends : e[2] # Fail }
             again == match(it.items \o <<it>> \o rest, s, i)
         IN CASE it.kind = "class" ->
                   IF good = {} THEN Fail
                   ELSE (CHOOSE e \in good : \A f \in good : e[1] >= f[1])[2]
              [] it.kind = "boundary" ->
                   IF IsWord(At(s, i - 1)) # IsWord(At(s, i)) THEN match(rest, s, i) ELSE Fail
              [] it.kind = "star" ->
                   IF again # Fail THEN again ELSE match(rest, s, i)

\* re.findall(pattern, text): the matches left to right, not overlapping. A
\* match is <<first index, last index>>.
all_matches(pattern, s) ==
    { m \in { <<i, match(pattern, s, i)>> : i \in 1..Len(s) } : m[2] # Fail }
leftmost(hits) == CHOOSE m \in hits : \A n \in hits : m[1] <= n[1]
RECURSIVE collect(_, _)
collect(s, hits) ==
    IF hits = {} THEN <<>>
    ELSE <<SubSeq(s, leftmost(hits)[1], leftmost(hits)[2])>>
         \o collect(s, { m \in hits : m[1] > leftmost(hits)[2] })
findall(pattern, s) == collect(s, all_matches(pattern, s))

Quote == {"\"", "'"}
\* \d+\.?\d*\s*["\']?
Number ==
    <<Class(DigitChars, 1, NoLimit), Class({"."}, 0, 1), Class(DigitChars, 0, NoLimit),
      Class(Space, 0, NoLimit), Class(Quote, 0, 1)>>
Updated == Word(<<"U", "p", "d", "a", "t", "e", "d">>) \o <<Lit(" ")>>
size_patterns ==
    << Number \o <<Class(Space, 0, NoLimit), AnyCase("x"), Class(Space, 0, NoLimit)>> \o Number,
       <<Class(DigitChars, 1, NoLimit), Class(Space, 0, NoLimit)>>
         \o Word(<<"s", "i", "d", "e">>) \o <<Class({"d", "D"}, 0, 1)>>,
       Updated \o <<Class(DigitChars, 1, 2), Lit("/"), Class(DigitChars, 4, 4)>>,
       Updated \o <<Class(DigitChars, 1, 2), Lit("-"), Class(DigitChars, 1, 2), Lit("-"), Class(DigitChars, 4, 4)>> >>

\* extract_specs
extract_specs(text) ==
    IF text = <<>> THEN <<>>
    ELSE findall(size_patterns[1], text) \o findall(size_patterns[2], text)
         \o findall(size_patterns[3], text) \o findall(size_patterns[4], text)

\* \b[A-Z]{2}\b
state_pattern == <<Boundary, Class(UpperSet, 2, 2), Boundary>>
\* \b[A-Z][a-z]+(?:\s+[A-Z][a-z]+)*\b
city_pattern ==
    <<Boundary, Class(UpperSet, 1, 1), Class(LowerSet, 1, NoLimit),
      Star(<<Class(Space, 1, NoLimit), Class(UpperSet, 1, 1), Class(LowerSet, 1, NoLimit)>>),
      Boundary>>

\* extract_locations_from_text returns list(set(locations)): the model keeps the
\* set, and the order of the list is the choice of whoever reads locations[0].
false_positives ==
    {<<"T", "h", "e">>, <<"A">>, <<"A", "n">>, <<"I", "n">>, <<"O", "n">>,
     <<"A", "t">>, <<"T", "o">>, <<"F", "o", "r">>, <<"W", "i", "t", "h">>,
     <<"A", "n", "d">>, <<"O", "r">>}
extract_locations_from_text(text) ==
    IF text = <<>> THEN {}
    ELSE Range(findall(state_pattern, text))
         \cup (Range(findall(city_pattern, text)) \ false_positives)

\* get_product_type: the keyword table in its written order, first hit wins
type_keywords ==
    <<
      <<<<"e", "n", "v", "e", "l", "o", "p", "e">>,
        <<"E", "n", "v", "e", "l", "o", "p", "e">>>>,
      <<<<"b", "u", "s", "i", "n", "e", "s", "s", " ", "c", "a", "r", "d">>,
        <<"B", "u", "s", "i", "n", "e", "s", "s", " ", "C", "a", "r", "d">>>>,
      <<<<"a", "p", "p", "o", "i", "n", "t", "m", "e", "n", "t", " ", "c", "a", "r", "d">>,
        <<"A", "p", "p", "o", "i", "n", "t", "m", "e", "n", "t", " ", "C", "a", "r", "d">>>>,
      <<<<"q", "r", " ", "c", "o", "d", "e">>,
        <<"Q", "R", " ", "C", "o", "d", "e", " ", "C", "a", "r", "d">>>>,
      <<<<"r", "e", "v", "i", "e", "w", " ", "c", "a", "r", "d">>,
        <<"R", "e", "v", "i", "e", "w", " ", "C", "a", "r", "d">>>>,
      <<<<"c", "a", "r", "d">>,
        <<"C", "a", "r", "d">>>>,
      <<<<"f", "l", "i", "e", "r">>,
        <<"F", "l", "i", "e", "r">>>>,
      <<<<"f", "l", "y", "e", "r">>,
        <<"F", "l", "y", "e", "r">>>>,
      <<<<"b", "r", "o", "c", "h", "u", "r", "e">>,
        <<"B", "r", "o", "c", "h", "u", "r", "e">>>>,
      <<<<"l", "e", "t", "t", "e", "r", "h", "e", "a", "d">>,
        <<"L", "e", "t", "t", "e", "r", "h", "e", "a", "d">>>>,
      <<<<"r", "e", "g", "i", "s", "t", "r", "a", "t", "i", "o", "n">>,
        <<"R", "e", "g", "i", "s", "t", "r", "a", "t", "i", "o", "n", " ", "F", "o", "r", "m">>>>,
      <<<<"f", "o", "r", "m">>,
        <<"F", "o", "r", "m">>>>,
      <<<<"l", "e", "t", "t", "e", "r">>,
        <<"L", "e", "t", "t", "e", "r">>>>,
      <<<<"s", "a", "l", "e", "s", " ", "a", "i", "d">>,
        <<"S", "a", "l", "e", "s", " ", "A", "i", "d">>>>,
      <<<<"p", "o", "s", "t", "c", "a", "r", "d">>,
        <<"P", "o", "s", "t", "c", "a", "r", "d">>>>,
      <<<<"b", "o", "o", "k", "l", "e", "t">>,
        <<"B", "o", "o", "k", "l", "e", "t">>>>,
      <<<<"p", "o", "s", "t", "e", "r">>,
        <<"P", "o", "s", "t", "e", "r">>>>,
      <<<<"l", "a", "b", "e", "l">>,
        <<"L", "a", "b", "e", "l">>>>,
      <<<<"s", "t", "i", "c", "k", "e", "r">>,
        <<"S", "t", "i", "c", "k", "e", "r">>>>,
      <<<<"l", "a", "n", "y", "a", "r", "d">>,
        <<"L", "a", "n", "y", "a", "r", "d">>>>,
      <<<<"b", "a", "d", "g", "e">>,
        <<"B", "a", "d", "g", "e">>>>,
      <<<<"s", "i", "g", "n">>,
        <<"S", "i", "g", "n">>>>,
      <<<<"b", "a", "n", "n", "e", "r">>,
        <<"B", "a", "n", "n", "e", "r">>>>,
      <<<<"h", "a", "n", "d", "o", "u", "t">>,
        <<"H", "a", "n", "d", "o", "u", "t">>>>,
      <<<<"p", "r", "e", "s", "e", "n", "t", "a", "t", "i", "o", "n">>,
        <<"P", "r", "e", "s", "e", "n", "t", "a", "t", "i", "o", "n">>>>,
      <<<<"f", "o", "l", "d", "e", "r">>,
        <<"F", "o", "l", "d", "e", "r">>>>,
      <<<<"n", "o", "t", "e", "p", "a", "d">>,
        <<"N", "o", "t", "e", "p", "a", "d">>>>,
      <<<<"p", "e", "n">>,
        <<"P", "e", "n">>>>,
      <<<<"g", "i", "f", "t">>,
        <<"G", "i", "f", "t">>>>,
      <<<<"m", "e", "r", "c", "h", "a", "n", "d", "i", "s", "e">>,
        <<"M", "e", "r", "c", "h", "a", "n", "d", "i", "s", "e">>>>
    >>

get_product_type(name, categories) ==
    LET name_lower == lower(name)
        categories_lower == lower(categories)
        in_name == { i \in DOMAIN type_keywords : Contains(name_lower, type_keywords[i][1]) }
        in_cats == { i \in DOMAIN type_keywords : Contains(categories_lower, type_keywords[i][1]) }
    IN IF in_name # {} THEN type_keywords[Min(in_name)][2]
       ELSE IF in_cats # {} THEN type_keywords[Min(in_cats)][2]
       ELSE None

type_keyword_groups ==
    <<
      <<<<"e", "n", "v", "e", "l", "o", "p", "e">>,
        {<<"e", "n", "v", "e", "l", "o", "p", "e">>, <<"m", "a", "i", "l", "i", "n", "g">>, <<"s", "t", "a", "t", "i", "o", "n", "e", "r", "y">>}>>,
      <<<<"b", "u", "s", "i", "n", "e", "s", "s", " ", "c", "a", "r", "d">>,
        {<<"b", "u", "s", "i", "n", "e", "s", "s", " ", "c", "a", "r", "d">>, <<"c", "a", "r", "d">>, <<"n", "e", "t", "w", "o", "r", "k", "i", "n", "g">>, <<"c", "o", "n", "t", "a", "c", "t">>}>>,
      <<<<"a", "p", "p", "o", "i", "n", "t", "m", "e", "n", "t", " ", "c", "a", "r", "d">>,
        {<<"a", "p", "p", "o", "i", "n", "t", "m", "e", "n", "t", " ", "c", "a", "r", "d">>, <<"r", "e", "m", "i", "n", "d", "e", "r">>}>>,
      <<<<"q", "r", " ", "c", "o", "d", "e">>,
        {<<"q", "r", " ", "c", "o", "d", "e">>, <<"r", "e", "v", "i", "e", "w">>, <<"f", "e", "e", "d", "b", "a", "c", "k">>}>>,
      <<<<"c", "a", "r", "d">>,
        {<<"c", "a", "r", "d">>}>>,
      <<<<"f", "l", "i", "e", "r">>,
        {<<"f", "l", "i", "e", "r">>, <<"f", "l", "y", "e", "r">>, <<"m", "a", "r", "k", "e", "t", "i", "n", "g">>, <<"p", "r", "o", "m", "o", "t", "i", "o", "n", "a", "l">>}>>,
      <<<<"b", "r", "o", "c", "h", "u", "r", "e">>,
        {<<"b", "r", "o", "c", "h", "u", "r", "e">>, <<"m", "a", "r", "k", "e", "t", "i", "n", "g">>, <<"i", "n", "f", "o", "r", "m", "a", "t", "i", "o", "n", "a", "l">>}>>,
      <<<<"l", "e", "t", "t", "e", "r", "h", "e", "a", "d">>,
        {<<"l", "e", "t", "t", "e", "r", "h", "e", "a", "d">>, <<"s", "t", "a", "t", "i", "o", "n", "e", "r", "y">>, <<"c", "o", "r", "r", "e", "s", "p", "o", "n", "d", "e", "n", "c", "e">>}>>,
      <<<<"r", "e", "g", "i", "s", "t", "r", "a", "t", "i", "o", "n">>,
        {<<"r", "e", "g", "i", "s", "t", "r", "a", "t", "i", "o", "n">>, <<"f", "o", "r", "m">>}>>,
      <<<<"f", "o", "r", "m">>,
        {<<"f", "o", "r", "m">>, <<"d", "o", "c", "u", "m", "e", "n", "t">>}>>,
      <<<<"l", "e", "t", "t", "e", "r">>,
        {<<"l", "e", "t", "t", "e", "r">>, <<"c", "o", "r", "r", "e", "s", "p", "o", "n", "d", "e", "n", "c", "e">>}>>,
      <<<<"s", "a", "l", "e", "s", " ", "a", "i", "d">>,
        {<<"s", "a", "l", "e", "s", " ", "a", "i", "d">>, <<"m", "a", "r", "k", "e", "t", "i", "n", "g">>, <<"s", "a", "l", "e", "s", " ", "t", "o", "o", "l">>}>>,
      <<<<"p", "o", "s", "t", "c", "a", "r", "d">>,
        {<<"p", "o", "s", "t", "c", "a", "r", "d">>, <<"m", "a", "i", "l", "i", "n", "g">>, <<"m", "a", "r", "k", "e", "t", "i", "n", "g">>}>>,
      <<<<"b", "o", "o", "k", "l", "e", "t">>,
        {<<"b", "o", "o", "k", "l", "e", "t">>, <<"g", "u", "i", "d", "e">>}>>,
      <<<<"p", "o", "s", "t", "e", "r">>,
        {<<"p", "o", "s", "t", "e", "r">>, <<"s", "i", "g", "n", "a", "g", "e">>, <<"d", "i", "s", "p", "l", "a", "y">>}>>,
      <<<<"l", "a", "b", "e", "l">>,
        {<<"l", "a", "b", "e", "l">>, <<"s", "t", "i", "c", "k", "e", "r">>}>>,
      <<<<"l", "a", "n", "y", "a", "r", "d">>,
        {<<"l", "a", "n", "y", "a", "r", "d">>, <<"b", "a", "d", "g", "e", " ", "h", "o", "l", "d", "e", "r">>}>>,
      <<<<"s", "i", "g", "n">>,
        {<<"s", "i", "g", "n">>, <<"s", "i", "g", "n", "a", "g", "e">>}>>,
      <<<<"b", "a", "n", "n", "e", "r">>,
        {<<"b", "a", "n", "n", "e", "r">>, <<"d", "i", "s", "p", "l", "a", "y">>}>>,
      <<<<"h", "a", "n", "d", "o", "u", "t">>,
        {<<"h", "a", "n", "d", "o", "u", "t">>, <<"i", "n", "f", "o", "r", "m", "a", "t", "i", "o", "n", "a", "l">>}>>
    >>

\* row.get(col, '')
Get(row, col) == IF col \in DOMAIN row THEN row[col] ELSE <<>>
Take(list, n) == SubSeq(list, 1, IF Len(list) < n THEN Len(list) ELSE n)

\* locations[0] if locations else None: list(set(...)) fixes no order, so any
\* detected location can be the first
FirstLocations(name) ==
    IF extract_locations_from_text(name) = {} THEN {None}
    ELSE extract_locations_from_text(name)

common_prefixes == {<<"t", "h", "e">>, <<"a">>, <<"a", "n">>}
NotPrefix(word) == lower(word) \notin common_prefixes
meaningful_words(name_parts) == Take(SelectSeq(Take(name_parts, 5), NotPrefix), 3)

\* generate_seo_title: the parts of the title, in the order they are appended
type_part(product_type, name_parts) ==
    IF product_type # None THEN <<product_type>>
    ELSE IF meaningful_words(name_parts) # <<>>
    THEN <<join(meaningful_words(name_parts), <<" ">>)>>
    ELSE <<>>
location_part(location) == IF location # None THEN <<<<"-", " ">> \o location>> ELSE <<>>
spec_part(specs) ==
    IF /\ specs # <<>>
       /\ strip(specs[1]) # <<>>
       /\ ~Contains(strip(specs[1]), <<"U", "p", "d", "a", "t", "e", "d">>)
       /\ Len(strip(specs[1])) < 30
    THEN <<<<"(">> \o strip(specs[1]) \o <<")">>>> ELSE <<>>
store_part(store_name) == IF store_name # <<>> THEN <<<<"|", " ">> \o store_name>> ELSE <<>>
title_parts(name, brief_desc, long_desc, categories, store_name, location) ==
    type_part(get_product_type(name, categories), split_words(name))
    \o location_part(location)
    \o spec_part(extract_specs(brief_desc) \o extract_specs(long_desc))
    \o store_part(store_name)

\* generate_seo_title up to the length rule: the fallback text, or the joined parts
joined_title(parts, name, store_name) ==
    IF Len(parts) <= 1
    THEN [fallback |-> TRUE,
          text |-> IF store_name # <<>> THEN name \o <<" ", "|", " ">> \o store_name ELSE name]
    ELSE [fallback |-> FALSE, text |-> join(parts, <<" ">>)]
title_text(row, location) ==
    joined_title(title_parts(clean_text(row["Name"]),
                             clean_text(Get(row, "BriefDescription")),
                             clean_text(Get(row, "LongDescription")),
                             clean_text(Get(row, "StoreFront/Categories")),
                             clean_text(Get(row, "uStore_StoreName")),
                             location),
                 clean_text(row["Name"]),
                 clean_text(Get(row, "uStore_StoreName")))

truncate_title(t) ==
    IF t.fallback THEN t.text
    ELSE IF Len(t.text) > 70 THEN SubSeq(t.text, 1, 67) \o <<".", ".", ".">>
    ELSE t.text
generate_seo_title(row, location) == truncate_title(title_text(row, location))

common_words ==
    {<<"o", "n", "l", "i", "n", "e">>, <<"p", "r", "i", "n", "t">>,
     <<"p", "o", "r", "t", "a", "l">>, <<"s", "t", "o", "r", "e">>,
     <<"o", "r", "d", "e", "r", "i", "n", "g">>, <<"t", "h", "e">>, <<"a">>, <<"a", "n">>}

\* generate_keywords: what each block adds to the keywords set
location_terms(name) == { lower(loc) : loc \in extract_locations_from_text(name) }
group_hits(name_lower) ==
    { i \in DOMAIN type_keyword_groups : Contains(name_lower, type_keyword_groups[i][1]) }
type_terms(hits) == IF hits = {} THEN {} ELSE type_keyword_groups[Min(hits)][2]
stripped(parts) == [i \in DOMAIN parts |-> strip(parts[i])]
long_parts(category_parts) ==
    { lower(category_parts[i]) : i \in { j \in DOMAIN category_parts : Len(category_parts[j]) > 2 } }
category_terms(categories) ==
    IF categories = <<>> THEN {} ELSE long_parts(stripped(split(categories, "/")))
\* ('español' is outside the characters of the model's inputs)
language_terms(name_lower) ==
    IF Contains(name_lower, <<"s", "p", "a", "n", "i", "s", "h">>)
    THEN {<<"s", "p", "a", "n", "i", "s", "h">>} ELSE {}
inch == <<"i", "n", "c", "h">>
spec_clean(spec) == replace(replace(strip(spec), <<"\"">>, inch), <<"'">>, inch)
spec_terms(specs) ==
    { lower(spec_clean(specs[i])) :
        i \in { j \in DOMAIN specs : /\ ~Contains(specs[j], <<"U", "p", "d", "a", "t", "e", "d">>)
                                     /\ spec_clean(specs[j]) # <<>>
                                     /\ Len(spec_clean(specs[j])) < 20 } }
store_terms(store_name) ==
    IF store_name = <<>> THEN {}
    ELSE Range(split_words(lower(store_name))) \ common_words
keywords(name, brief_desc, categories, store_name) ==
    location_terms(name) \cup type_terms(group_hits(lower(name)))
    \cup category_terms(categories) \cup language_terms(lower(name))
    \cup spec_terms(Take(extract_specs(brief_desc), 2)) \cup store_terms(store_name)

\* generate_keywords up to the length rule: sorted(list(keywords))
keywords_list(row) ==
    sorted(keywords(clean_text(row["Name"]),
                    clean_text(Get(row, "BriefDescription")),
                    clean_text(Get(row, "StoreFront/Categories")),
                    clean_text(Get(row, "uStore_StoreName"))))

cut_at_comma(cut) == IF rfind(cut, ",") > 0 THEN SubSeq(cut, 1, rfind(cut, ",")) ELSE cut
truncate_keywords(keywords_str) ==
    IF Len(keywords_str) > 500 THEN cut_at_comma(SubSeq(keywords_str, 1, 500))
    ELSE keywords_str
generate_keywords(row) == truncate_keywords(join(keywords_list(row), <<",", " ">>))

\* generate_seo_data; location[i] is the locations[0] that row i's title gets
generate_seo_data(d, input_csv, output_csv, location) ==
    IF ~Exists(d, input_csv) THEN Result("False", d)
    ELSE LET df == d[input_csv]
             columns == df.columns
                        \o (IF HasColumn(df, "SEOTitle") THEN <<>> ELSE <<"SEOTitle">>)
                        \o (IF HasColumn(df, "KeyWords") THEN <<>> ELSE <<"KeyWords">>)
             rows == [i \in DOMAIN df.rows |->
                        [c \in Range(columns) |->
                            CASE c = "SEOTitle" -> generate_seo_title(df.rows[i], location[i])
                              [] c = "KeyWords" -> generate_keywords(df.rows[i])
                              [] OTHER -> df.rows[i][c]]]
         IN IF ~HasColumn(df, "Name") THEN Result("False", d)
            ELSE Result("True", [d EXCEPT ![output_csv] = Csv(columns, rows)])

SeoInput == "Store_Export.csv"
SeoOutput == "Store_Export_SEO.csv"
\* f"{input_path.stem}_with_seo{input_path.suffix}"
SeoDefaultOutput == "Store_Export_with_seo.csv"

\* main of SEO_generator.py
exit_status(r) == [exit |-> IF r.ret = "True" THEN 0 ELSE 1, ret |-> r.ret, disk |-> r.disk]
SeoMain(d, args, location) ==
    IF Len(args) < 1 THEN [exit |-> 1, ret |-> "none", disk |-> d]
    ELSE exit_status(generate_seo_data(d, args[1],
                                       IF Len(args) >= 2 THEN args[2] ELSE SeoDefaultOutput,
                                       location))

\* The rows the SEO step is run on
NamePad == 10
LongWordLen == 501
PartLen == 100
ManyParts == 6
Rep(s, n) == [i \in 1..(n * Len(s)) |-> s[((i - 1) % Len(s)) + 1]]
DigitSeq == <<"0", "1", "2", "3", "4", "5", "6", "7", "8", "9">>
CategoryPart(i) == Rep(<<DigitSeq[i + 1]>>, PartLen)
ManyCategories == join([i \in 1..ManyParts |-> CategoryPart(i)], <<"/">>)

SeoNames ==
    { <<"B", "u", "s", "i", "n", "e", "s", "s", " ", "C", "a", "r", "d", " ", "-", " ", "B", "e", "a", "v", "e", "r", "t", "o", "n", " ", "(", "4", "x", "6", ")">>,
      <<"b", "u", "s", "i", "n", "e", "s", "s", " ", "c", "a", "r", "d">> \o Rep(<<" ", "l", "o", "r", "e", "m">>, NamePad),
      <<"A", "F", "C", " ", "F", "l", "y", "e", "r", " ", "O", "R", " ", "S", "a", "l", "e", "m">>,
      <<"t", "h", "e", " ", "a", " ", "a", "n">>,
      <<"S", "p", "a", "n", "i", "s", "h", " ", "B", "r", "o", "c", "h", "u", "r", "e", " ", "N", "e", "w", " ", "P", "a", "t", "i", "e", "n", "t", "s">>,
      <<" ", "\"", "I", "n", "t", "a", "k", "e", " ", "\"", "\"", "F", "o", "r", "m", "\"", "\"", " ", "P", "o", "r", "t", "l", "a", "n", "d", "\"", " ">>,
      <<"W", "e", "l", "c", "o", "m", "e", " ", "P", "a", "c", "k", "e", "t", " ", "F", "o", "r", " ", "W", "e", "s", "t", " ", "L", "i", "n", "n">>,
      <<"O", "r", "d", "e", "r", " ", "o", "f", " ", "t", "h", "e", " ", "d", "a", "y">> }
SeoBriefs == { <<>>, <<"4", "x", "6", " ", "2", " ", "s", "i", "d", "e", "d">>, <<"U", "p", "d", "a", "t", "e", "d", " ", "1", "/", "2", "0", "2", "4", " ", "8", ".", "5", "\"", " ", "x", " ", "1", "1", "\"">>, <<"u", "p", "d", "a", "t", "e", "d", " ", "1", "2", "-", "1", "-", "2", "0", "2", "4", " ", "t", "h", "e", "n", " ", "2", "s", "i", "d", "e", "d">> }
SeoLongs == { <<>>, <<"3", " ", "S", "i", "d", "e", "d", " ", "5", " ", "X", " ", "7">> }
SeoCategories == { <<>>, <<"C", "a", "r", "d", "s", "/", "B", "u", "s", "i", "n", "e", "s", "s", " ", "C", "a", "r", "d", "s">> }
SeoStores == { <<>>, <<"T", "h", "e", " ", "O", "n", "l", "i", "n", "e", " ", "P", "r", "i", "n", "t", " ", "S", "t", "o", "r", "e">> }
LongCategories == { Rep(<<"a">>, LongWordLen), ManyCategories }

\* <<Name, BriefDescription, LongDescription, StoreFront/Categories, uStore_StoreName>>
SeoValues ==
    (SeoNames \X SeoBriefs \X SeoLongs \X SeoCategories \X SeoStores)
    \cup ({<<"B", "u", "s", "i", "n", "e", "s", "s", " ", "C", "a", "r", "d", " ", "-", " ", "B", "e", "a", "v", "e", "r", "t", "o", "n", " ", "(", "4", "x", "6", ")">>, <<"t", "h", "e", " ", "a", " ", "a", "n">>} \X {<<>>} \X {<<>>} \X LongCategories \X {<<>>, <<"A", "F", "C", " ", "U", "r", "g", "e", "n", "t", " ", "C", "a", "r", "e">>})
    \cup {<<<<"F", "l", "y", "e", "r">>, <<"1", "1", " ", "x", " ", "1", "7">>, <<>>, <<"a", "/", "b", "b", "/", " ", "M", "a", "r", "k", "e", "t", "i", "n", "g", " ", "M", "a", "t", "e", "r", "i", "a", "l", "s", " ", "/", "O", "R">>, <<"A", "F", "C", " ", "U", "r", "g", "e", "n", "t", " ", "C", "a", "r", "e">>>>}

SeoColumns ==
    { <<"Name", "BriefDescription", "LongDescription", "StoreFront/Categories", "uStore_StoreName">>,
      <<"Name", "SEOTitle", "StoreFront/Categories">>,
      <<"Name">>,
      <<"BriefDescription">> }

SeoRows(cols) ==
    { [c \in Range(cols) |->
         CASE c = "Name" -> v[1]
           [] c = "BriefDescription" -> v[2]
           [] c = "LongDescription" -> v[3]
           [] c = "StoreFront/Categories" -> v[4]
           [] c = "uStore_StoreName" -> v[5]
           [] c = "SEOTitle" -> <<"o", "l", "d", " ", "t", "i", "t", "l", "e">>] : v \in SeoValues }

\* one product per table, and one table of two products
SeoTables ==
    UNION { { Csv(cols, <<r>>) : r \in SeoRows(cols) } : cols \in SeoColumns }
    \cup { Csv(<<"Name">>, <<[Name |-> <<"P", "o", "s", "t", "e", "r", " ", "S", "a", "l", "e", "m">>], [Name |-> <<"L", "a", "b", "e", "l">>]>>) }

SeoStart ==
    /\ disk \in { [p \in {SeoInput, SeoOutput, SeoDefaultOutput} |-> IF p = SeoInput THEN i ELSE NoFile] :
                    i \in {NoFile} \cup SeoTables }
    /\ old_disk = disk
    /\ argv \in { <<>>, <<SeoInput>>, <<SeoInput, SeoOutput>> }
    /\ phase = "ready"
    /\ ret = "none"
    /\ script_exit = NoExit
    /\ report = <<>>
SeoInit == PipelineIdle /\ SeoStart

RowLocations(d, args) ==
    IF Len(args) >= 1 /\ Exists(d, args[1]) /\ HasColumn(d[args[1]], "Name")
    THEN { f \in [DOMAIN d[args[1]].rows -> UNION { FirstLocations(clean_text(d[args[1]].rows[i]["Name"])) : i \in DOMAIN d[args[1]].rows }] :
             \A i \in DOMAIN f : f[i] \in FirstLocations(clean_text(d[args[1]].rows[i]["Name"])) }
    ELSE { <<>> }

RunSeo ==
    /\ phase = "ready"
    /\ \E location \in RowLocations(disk, argv) :
          \E r \in {SeoMain(disk, argv, location)} :
             /\ disk' = r.disk
             /\ ret' = r.ret
             /\ script_exit' = r.exit
    /\ old_disk' = disk
    /\ phase' = "done"
    /\ UNCHANGED <<argv, report, pipeVars>>

SeoSpec == SeoInit /\ [][RunSeo]_vars

SeoWritten == IF Len(argv) >= 2 THEN argv[2] ELSE SeoDefaultOutput
SeoDone == phase = "done" /\ ret = "True"

\* C6: every title generate_seo_title returns has at most 70 characters, and a
\* title that is not the unshortened text is exactly 70 characters ending in "...".
C6_TitleAtMost70 ==
    SeoDone =>
        \A i \in DOMAIN disk[SeoWritten].rows :
            LET title == disk[SeoWritten].rows[i]["SEOTitle"]
                row == old_disk[argv[1]].rows[i]
                unshortened == { title_text(row, l).text : l \in FirstLocations(clean_text(row["Name"])) }
            IN /\ Len(title) <= 70
               /\ title \notin unshortened => Len(title) = 70 /\ EndsWith(title, <<".", ".", ".">>)

\* C7: the keyword string generate_keywords returns has at most 500 characters
\* and is the comma-joined list of the first n keywords of the sorted list, for
\* some n (no trailing partial keyword).
C7_KeywordsWholeWithin500 ==
    SeoDone =>
        \A i \in DOMAIN disk[SeoWritten].rows :
            LET keywords_str == disk[SeoWritten].rows[i]["KeyWords"]
                list == keywords_list(old_disk[argv[1]].rows[i])
            IN /\ Len(keywords_str) <= 500
               /\ \E n \in 0..Len(list) : keywords_str = join(Take(list, n), <<",", " ">>)

\* C19: for a row whose Name is "Business Card - Beaverton (4x6)" the title
\* generate_seo_title returns starts with that name (31 characters, so the
\* 70-character rule leaves it whole) and the keyword list generate_keywords
\* returns includes "business card" and "beaverton".
BeavertonCard == <<"B", "u", "s", "i", "n", "e", "s", "s", " ", "C", "a", "r", "d", " ", "-", " ", "B", "e", "a", "v", "e", "r", "t", "o", "n", " ", "(", "4", "x", "6", ")">>
KeywordsOf(keywords_str) == Range(stripped(split(keywords_str, ",")))
C19_BeavertonCardTitleAndKeywords ==
    SeoDone =>
        \A i \in DOMAIN disk[SeoWritten].rows :
            old_disk[argv[1]].rows[i]["Name"] = BeavertonCard =>
                /\ StartsWith(disk[SeoWritten].rows[i]["SEOTitle"], BeavertonCard)
                /\ <<"b", "u", "s", "i", "n", "e", "s", "s", " ", "c", "a", "r", "d">> \in KeywordsOf(disk[SeoWritten].rows[i]["KeyWords"])
                /\ <<"b", "e", "a", "v", "e", "r", "t", "o", "n">> \in KeywordsOf(disk[SeoWritten].rows[i]["KeyWords"])

\* C28: generate_seo_title is deterministic: the title written for a row is
\* fixed by the row, so when the name holds several candidate locations (state
\* abbreviations, runs of capitalised words) the title does not depend on
\* which of them the de-duplicating set yields first.
C28_TitleFixedByRow ==
    SeoDone =>
        \A i \in DOMAIN disk[SeoWritten].rows :
            \A l \in FirstLocations(clean_text(old_disk[argv[1]].rows[i]["Name"])) :
                disk[SeoWritten].rows[i]["SEOTitle"]
                    = generate_seo_title(old_disk[argv[1]].rows[i], l)
\* a name with at most one candidate location has one title
C28_TitleFixedWithOneLocation ==
    SeoDone =>
        \A i \in DOMAIN disk[SeoWritten].rows :
            \A l \in FirstLocations(clean_text(old_disk[argv[1]].rows[i]["Name"])) :
                Cardinality(FirstLocations(clean_text(old_disk[argv[1]].rows[i]["Name"]))) = 1
                    => disk[SeoWritten].rows[i]["SEOTitle"]
                          = generate_seo_title(old_disk[argv[1]].rows[i], l)

-----------------------------------------------------------------------------
(* fields_mapper.py. A DataFrame is its column list and its rows; a row maps
   each column to a string. *)

\* the missing value of a cell that no column assignment has filled (no cell
\* read from a CSV holds it: the files are read with keep_default_na=False)
NaN == "<NaN>"
Frame(columns, rows) == [columns |-> columns, rows |-> rows]
Reported(value, files, printed) == [ret |-> value, disk |-> files, report |-> printed]

\* df.head(n)
head(rows, n) ==
    IF n >= 0 THEN Take(rows, n)
    ELSE Take(rows, IF Len(rows) + n > 0 THEN Len(rows) + n ELSE 0)

\* df.to_csv(path): a missing value is written as the empty field
to_csv(df) ==
    Csv(df.columns,
        [i \in 1..Len(df.rows) |->
           [c \in Range(df.columns) |-> IF df.rows[i][c] = NaN THEN "" ELSE df.rows[i][c]]])

mdsf_columns ==
    <<
      "Name", "DisplayName", "Type", "ProductId", "BriefDescription", "Icon",
      "LongDescription", "DetailImage", "Active", "TurnAroundTime", "TurnAroundTimeUnit",
      "QuantityType", "MaxOrderQuantityPermitted", "Quantities",
      "AllowBuyerToEditMultipleQuantity", "EnforceMaxQuantityPermittedInCart",
      "OrderQuantitiesAllowSplitAcrossMultipleRecipients", "DescriptionFooter",
      "ProductNotes", "KeyWords", "SEOTitle", "UrlSlug", "MetaDescription",
      "MobileSupported", "BuyerDeliverableType", "WeightValue", "WeightUnit", "WidthValue",
      "LengthValue", "HeightValue", "DimensionUnit", "MaxQuantityPerSubcontainer",
      "ShipItemSeparately", "ContentFile", "TicketTemplate",
      "ProductNameToCopySecuritySettings", "MISItemTemplate", "SmartCanvasTemplateName",
      "DynamicPreview", "AllowBuyerConfiguration", "StartDate", "EndDate", "PickLocation",
      "WareHouseName", "IsHighValueProduct", "HasUniqueSkid", "PickStrategy",
      "NotifyOnInventoryReceive", "CustomerRep", "SalesRep", "PhysicalCountInterval",
      "StorageType", "AllowBackOrder", "BackOrderRule", "BackOrderMaxQty",
      "ShowInventoryWhenBackOrderAllowed", "Threshold", "Emails", "Storefront/Categories",
      "Barcode", "EnableProductReturn", "BuyNowButtonDescription", "UseNewSmartCanvas"
    >>

\* <<source column, destination column>>, in the order the code applies them
field_mapping ==
    <<
      <<"Name", "Name">>, <<"DisplayName", "DisplayName">>, <<"Type", "Type">>,
      <<"SKU/ProductId", "ProductId">>, <<"BriefDescription", "BriefDescription">>,
      <<"Icon", "Icon">>, <<"LongDescription", "LongDescription">>,
      <<"DetailImage", "DetailImage">>, <<"Active", "Active">>,
      <<"QuantityType", "QuantityType">>,
      <<"MaxOrderQuantityPermitted", "MaxOrderQuantityPermitted">>,
      <<"KeyWords", "KeyWords">>, <<"SEOTitle", "SEOTitle">>,
      <<"MetaDescription", "MetaDescription">>, <<"MobileSupported", "MobileSupported">>,
      <<"ContentFile", "ContentFile">>, <<"TicketTemplate", "TicketTemplate">>,
      <<"StoreFront/Categories", "Storefront/Categories">>
    >>

\* <<destination column, default value>>, in the order the code assigns them
default_values ==
    <<
      <<"TurnAroundTime", "">>, <<"TurnAroundTimeUnit", "">>, <<"Quantities", "">>,
      <<"AllowBuyerToEditMultipleQuantity", "FALSE">>,
      <<"EnforceMaxQuantityPermittedInCart", "FALSE">>,
      <<"OrderQuantitiesAllowSplitAcrossMultipleRecipients", "FALSE">>,
      <<"DescriptionFooter", "">>, <<"ProductNotes", "">>, <<"UrlSlug", "">>,
      <<"BuyerDeliverableType", "Print">>, <<"WeightValue", "">>, <<"WeightUnit", "">>,
      <<"WidthValue", "">>, <<"LengthValue", "">>, <<"HeightValue", "">>,
      <<"DimensionUnit", "">>, <<"MaxQuantityPerSubcontainer", "">>,
      <<"ShipItemSeparately", "">>, <<"ProductNameToCopySecuritySettings", "">>,
      <<"MISItemTemplate", "">>, <<"SmartCanvasTemplateName", "">>,
      <<"DynamicPreview", "">>, <<"AllowBuyerConfiguration", "">>, <<"StartDate", "">>,
      <<"EndDate", "">>, <<"PickLocation", "">>, <<"WareHouseName", "">>,
      <<"IsHighValueProduct", "">>, <<"HasUniqueSkid", "">>, <<"PickStrategy", "">>,
      <<"NotifyOnInventoryReceive", "">>, <<"CustomerRep", "">>, <<"SalesRep", "">>,
      <<"PhysicalCountInterval", "">>, <<"StorageType", "">>, <<"AllowBackOrder", "">>,
      <<"BackOrderRule", "">>, <<"BackOrderMaxQty", "">>,
      <<"ShowInventoryWhenBackOrderAllowed", "">>, <<"Threshold", "">>, <<"Emails", "">>,
      <<"Barcode", "">>, <<"EnableProductReturn", "">>, <<"BuyNowButtonDescription", "">>,
      <<"UseNewSmartCanvas", "">>
    >>
helper_columns == <<"uStore_ProductID", "uStore_StoreID", "uStore_StoreName">>

\* The column assignments map_to_mdsf makes, in the order it makes them:
\* df_mdsf[col] = df_ustore[value] and df_mdsf[col] = 'value'
series_statement(col, source_col) == [col |-> col, kind |-> "series", value |-> source_col]
scalar_statement(col, v) == [col |-> col, kind |-> "scalar", value |-> v]
\* for ustore_field, mdsf_field in field_mapping.items()
mapped_entries(df_ustore) == SelectSeq(field_mapping, LAMBDA e : HasColumn(df_ustore, e[1]))
mapping_statements(df_ustore) ==
    [k \in 1..Len(mapped_entries(df_ustore)) |->
       series_statement(mapped_entries(df_ustore)[k][2], mapped_entries(df_ustore)[k][1])]
\* for col in helper_columns
kept_helpers(df_ustore) == SelectSeq(helper_columns, LAMBDA col : HasColumn(df_ustore, col))
helper_statements(df_ustore) ==
    [k \in 1..Len(kept_helpers(df_ustore)) |->
       series_statement(kept_helpers(df_ustore)[k], kept_helpers(df_ustore)[k])]
\* (mutant of thumbnail_statements: the detail image is left as mapped)
thumbnail_statements_IconOnly(use_auto_thumbnail) ==
    IF use_auto_thumbnail THEN <<scalar_statement("Icon", "AutoThumbnail")>> ELSE <<>>
thumbnail_statements(use_auto_thumbnail) ==
    IF use_auto_thumbnail
    THEN <<scalar_statement("Icon", "AutoThumbnail"), scalar_statement("DetailImage", "AutoThumbnail")>>
    ELSE <<>>
default_statements ==
    [k \in 1..Len(default_values) |-> scalar_statement(default_values[k][1], default_values[k][2])]
statements(df_ustore, use_auto_thumbnail) ==
    mapping_statements(df_ustore) \o helper_statements(df_ustore)
    \o thumbnail_statements(use_auto_thumbnail) \o default_statements

\* Executing column assignments on pd.DataFrame(columns=columns), a frame
\* without rows. An assigned column keeps its place when the frame has it and
\* goes last when it is new; the first series assigned gives the frame its
\* rows; a text assigned while the frame has no rows fills no cell; a cell that
\* nothing fills is NaN.
is_new(columns, stmts, k) ==
    /\ stmts[k].col \notin Range(columns)
    /\ \A j \in 1..(k - 1) : stmts[j].col # stmts[k].col
new_columns(columns, stmts) ==
    SelectSeq([k \in 1..Len(stmts) |-> IF is_new(columns, stmts, k) THEN stmts[k].col ELSE NaN],
              LAMBDA col : col # NaN)
has_series(stmts) == \E k \in 1..Len(stmts) : stmts[k].kind = "series"
first_series(stmts) == Min({ k \in 1..Len(stmts) : stmts[k].kind = "series" })
filling(stmts) == IF has_series(stmts) THEN SubSeq(stmts, first_series(stmts), Len(stmts)) ELSE <<>>
last_for(stmts, c) == Max({0} \cup { k \in 1..Len(stmts) : stmts[k].col = c })
value_of(statement, source_row) ==
    IF statement.kind = "series" THEN source_row[statement.value] ELSE statement.value
cell(stmts, source_row, c) ==
    IF last_for(stmts, c) = 0 THEN NaN ELSE value_of(stmts[last_for(stmts, c)], source_row)
filled_rows(columns, stmts, source_rows) ==
    [i \in 1..Len(source_rows) |-> [c \in Range(columns) |-> cell(stmts, source_rows[i], c)]]
\* execute, with the new columns placed before the frame's own
execute_NewColumnsFirst(columns, stmts, df_ustore) ==
    Frame(new_columns(columns, stmts) \o columns,
          IF has_series(stmts)
          THEN filled_rows(columns \o new_columns(columns, stmts), filling(stmts), df_ustore.rows)
          ELSE <<>>)
execute(columns, stmts, df_ustore) ==
    Frame(columns \o new_columns(columns, stmts),
          IF has_series(stmts)
          THEN filled_rows(columns \o new_columns(columns, stmts), filling(stmts), df_ustore.rows)
          ELSE <<>>)

\* the frame map_to_mdsf writes
mapped_frame(df_ustore, use_auto_thumbnail) ==
    execute(mdsf_columns, statements(df_ustore, use_auto_thumbnail), df_ustore)

\* the validation report: errors and warnings as <<message, count>>
count_empty(df, col) == Cardinality({ i \in DOMAIN df.rows : df.rows[i][col] = "" })
documents(df) == { i \in DOMAIN df.rows : df.rows[i]["Type"] = "Document" }
flag(message, count) == IF count > 0 THEN <<<<message, count>>>> ELSE <<>>
validation(df) ==
    [errors |->
        flag("missing Name", count_empty(df, "Name"))
        \o flag("missing DisplayName", count_empty(df, "DisplayName"))
        \o flag("missing Type", count_empty(df, "Type"))
        \o flag("Document missing TicketTemplate",
                Cardinality({ i \in documents(df) : df.rows[i]["TicketTemplate"] = "" }))
        \o flag("Document missing ContentFile",
                Cardinality({ i \in documents(df) : df.rows[i]["ContentFile"] = "" })),
     warnings |->
        flag("empty BriefDescription", count_empty(df, "BriefDescription"))
        \o flag("empty LongDescription", count_empty(df, "LongDescription")),
     products |-> Len(df.rows),
     documents |-> Cardinality(documents(df)),
     columns |-> Len(df.columns)]

written(d, output_file, df) ==
    Reported("True", [d EXCEPT ![output_file] = to_csv(df)], validation(df))
map_to_mdsf(d, input_file, output_file, use_auto_thumbnail, test_mode, test_limit) ==
    IF ~Exists(d, input_file) THEN Reported("False", d, <<>>)
    ELSE written(d, output_file,
                 mapped_frame(Frame(d[input_file].columns,
                                    IF test_mode THEN head(d[input_file].rows, test_limit)
                                    ELSE d[input_file].rows),
                              use_auto_thumbnail))

MapperInput == "with_assets.csv"
MapperOutput == "mdsf_import.csv"
\* sys.argv[n].lower() in ['true', '1', 'yes']
word_lower(w) == IF w = "True" THEN "true" ELSE IF w = "YES" THEN "yes" ELSE w
is_true(w) == word_lower(w) \in {"true", "1", "yes"}
\* int(sys.argv[5]), 1 when it is not a number
LimitOf == [w \in {"0", "1", "2", "-1"} |->
              CASE w = "0" -> 0 [] w = "1" -> 1 [] w = "2" -> 2 [] w = "-1" -> 0 - 1]
parse_limit(w) == IF w \in DOMAIN LimitOf THEN LimitOf[w] ELSE 1

exit_report(r) ==
    [exit |-> IF r.ret = "True" THEN 0 ELSE 1, ret |-> r.ret, disk |-> r.disk, report |-> r.report]
\* main of fields_mapper.py
MapperMain(d, args) ==
    IF Len(args) < 1 THEN [exit |-> 1, ret |-> "none", disk |-> d, report |-> <<>>]
    ELSE exit_report(map_to_mdsf(d, args[1],
                                 IF Len(args) > 1 THEN args[2] ELSE MapperOutput,
                                 IF Len(args) > 2 THEN is_true(args[3]) ELSE TRUE,
                                 IF Len(args) > 3 THEN is_true(args[4]) ELSE FALSE,
                                 IF Len(args) > 4 THEN parse_limit(args[5]) ELSE 1))

\* The tables the mapper is run on
MapperColumns ==
    { <<"Name", "DisplayName", "Type", "SKU/ProductId", "BriefDescription", "Icon",
        "LongDescription", "DetailImage", "Active", "QuantityType",
        "MaxOrderQuantityPermitted", "KeyWords", "SEOTitle", "MetaDescription",
        "MobileSupported", "ContentFile", "TicketTemplate", "StoreFront/Categories",
        "uStore_ProductID", "uStore_StoreID", "uStore_StoreName">>,
      <<"uStore_StoreName", "Extra", "Name", "Type", "uStore_ProductID">>,
      <<"Name", "DisplayName", "Type", "ContentFile", "TicketTemplate", "Icon">>,
      <<"Type", "DisplayName", "uStore_StoreID">>,
      <<"uStore_StoreName", "uStore_ProductID">>,
      <<"Extra">> }
\* <<Name, DisplayName, Type, TicketTemplate, ContentFile, Icon, uStore_ProductID>>
MapperProfiles ==
    { <<"Card", "Card", "Document", "T", "a.pdf", "a.png", "101">>,
      <<"", "", "", "", "", "", "102">>,
      <<"Flyer", "", "Document", "", "", "b.png", "103">>,
      <<"Kit item", "Kit item", "Kit", "", "", "", "104">> }
MapperRows(cols) ==
    { [c \in Range(cols) |->
         CASE c = "Name" -> v[1]
           [] c = "DisplayName" -> v[2]
           [] c = "Type" -> v[3]
           [] c = "TicketTemplate" -> v[4]
           [] c = "ContentFile" -> v[5]
           [] c \in {"Icon", "DetailImage"} -> v[6]
           [] c = "uStore_ProductID" -> v[7]
           [] c \in {"BriefDescription", "LongDescription"} -> ""
           [] OTHER -> "v"] : v \in MapperProfiles }
MapperTables ==
    UNION { { Csv(cols, rows) : rows \in UNION { [1..n -> MapperRows(cols)] : n \in 0..MaxRows } } :
            cols \in MapperColumns }
MapperArgs ==
    { <<>>, <<MapperInput>>, <<MapperInput, MapperOutput>> }
    \cup { <<MapperInput, MapperOutput, a>> : a \in {"false", "YES"} }
    \cup { <<MapperInput, MapperOutput, a, t, l>> :
             a \in {"true", "false"}, t \in {"True", "true", "false"},
             l \in {"0", "1", "2", "-1", "x"} }

MapperStart ==
    /\ disk \in { [p \in {MapperInput, MapperOutput} |-> IF p = MapperInput THEN i ELSE o] :
                    i \in {NoFile} \cup MapperTables, o \in {NoFile, StaleOutput} }
    /\ old_disk = disk
    /\ argv \in MapperArgs
    /\ phase = "ready"
    /\ ret = "none"
    /\ script_exit = NoExit
    /\ report = <<>>
MapperInit == PipelineIdle /\ MapperStart

RunMapper ==
    /\ phase = "ready"
    /\ \E r \in {MapperMain(disk, argv)} :
          /\ disk' = r.disk
          /\ ret' = r.ret
          /\ script_exit' = r.exit
          /\ report' = r.report
    /\ old_disk' = disk
    /\ phase' = "done"
    /\ UNCHANGED <<argv, pipeVars>>

MapperSpec == MapperInit /\ [][RunMapper]_vars

MapperWritten == IF Len(argv) > 1 THEN argv[2] ELSE MapperOutput
MapperDone == phase = "done" /\ ret = "True"
present_helpers(df) == SelectSeq(helper_columns, LAMBDA col : HasColumn(df, col))

\* C8 as stated: the CSV written by map_to_mdsf has exactly the columns
\* mdsf_columns, in that order, whatever columns the source has.
C8_ExactlyMdsfColumns ==
    MapperDone => disk[MapperWritten].columns = mdsf_columns

\* C8, amended: the CSV written by map_to_mdsf has the columns mdsf_columns in
\* that order, followed by those of the helper columns uStore_ProductID,
\* uStore_StoreID, uStore_StoreName that the source has, in that order, and no
\* other column.
C8_MdsfColumnsThenHelpers ==
    MapperDone =>
        disk[MapperWritten].columns = mdsf_columns \o present_helpers(old_disk[argv[1]])

C8_Witness ==
    /\ MapperDone
    /\ HasColumn(old_disk[argv[1]], "Extra")
    /\ HasColumn(old_disk[argv[1]], "uStore_StoreName")
    /\ ~HasColumn(old_disk[argv[1]], "uStore_StoreID")
    /\ Len(old_disk[argv[1]].rows) = 2
    /\ disk[MapperWritten].columns = mdsf_columns \o <<"uStore_ProductID", "uStore_StoreName">>

\* C16: map_to_mdsf reports a validation error for every output record without
\* a value for Name, DisplayName or Type, whether the source value is the empty
\* string or the source column is absent, and for every record of Type
\* Document without TicketTemplate or ContentFile; the output file is written
\* all the same and the step returns success.
Lacking(col) ==
    { i \in 1..Len(disk[MapperWritten].rows) : disk[MapperWritten].rows[i][col] = "" }
DocumentsLacking(col) ==
    { i \in Lacking(col) : disk[MapperWritten].rows[i]["Type"] = "Document" }
ErrorCount(message) ==
    IF \E n \in 1..Len(report.errors) : report.errors[n][1] = message
    THEN report.errors[CHOOSE n \in 1..Len(report.errors) : report.errors[n][1] = message][2]
    ELSE 0
C16_EveryLackingRecordReported ==
    (phase = "done" /\ Len(argv) > 0 /\ Exists(old_disk, argv[1])) =>
        /\ ret = "True"
        /\ script_exit = 0
        /\ disk[MapperWritten].kind = "csv"
        /\ ErrorCount("missing Name") = Cardinality(Lacking("Name"))
        /\ ErrorCount("missing DisplayName") = Cardinality(Lacking("DisplayName"))
        /\ ErrorCount("missing Type") = Cardinality(Lacking("Type"))
        /\ ErrorCount("Document missing TicketTemplate")
              = Cardinality(DocumentsLacking("TicketTemplate"))
        /\ ErrorCount("Document missing ContentFile")
              = Cardinality(DocumentsLacking("ContentFile"))

-----------------------------------------------------------------------------
(* packager.py and main.py. A cell, a file name and a directory name are text
   (sequences of characters); a path is a sequence of names; the disk maps
   each path to what is there. *)

Dir == [kind |-> "dir"]
File(content) == [kind |-> "file", content |-> content]
Zip(entries) == [kind |-> "zip", entries |-> entries]
\* Path(path).exists()
PathExists(d, path) == path \in DOMAIN d /\ d[path].kind # "absent"
WriteFile(d, path, file) == [p \in DOMAIN d \cup {path} |-> IF p = path THEN file ELSE d[p]]
Inside(path, dir) == Len(path) > Len(dir) /\ SubSeq(path, 1, Len(dir)) = dir
\* shutil.rmtree(dir), os.remove(path)
rmtree(d, dir) == [p \in DOMAIN d |-> IF p = dir \/ Inside(p, dir) THEN NoFile ELSE d[p]]
remove(d, path) == [p \in DOMAIN d |-> IF p = path THEN NoFile ELSE d[p]]
\* the names of the files directly in dir: file_path.name for file_path in
\* dir.iterdir() if file_path.is_file()
file_names(d, dir) ==
    { p[Len(p)] : p \in { q \in DOMAIN d : /\ Len(q) = Len(dir) + 1
                                            /\ Inside(q, dir)
                                            /\ d[q].kind \in {"csv", "file", "zip"} } }

AutoThumbnailText == <<"A", "u", "t", "o", "T", "h", "u", "m", "b", "n", "a", "i", "l">>
ProductPrefix == <<"P", "r", "o", "d", "u", "c", "t", "_">>
ProductLabel == <<"P", "r", "o", "d", "u", "c", "t", " ">>
Pages == <<"P", "a", "g", "e", "s">>
Thumbnails == <<"T", "h", "u", "m", "b", "n", "a", "i", "l", "s">>
ProductsCsv == <<"p", "r", "o", "d", "u", "c", "t", "s", ".", "c", "s", "v">>
PackageName == <<"M", "D", "S", "F", "_", "I", "m", "p", "o", "r", "t", "_", "P", "a", "c", "k", "a", "g", "e">>
DotZip == <<".", "z", "i", "p">>
\* f"Product_{product_id}"
product_dir(product_id) == ProductPrefix \o product_id
content_dir(assets_path, product_id) == Append(assets_path, product_dir(product_id))
thumbnail_dir(thumbnails_path, product_id) ==
    thumbnails_path \o <<product_dir(product_id), Pages, Thumbnails>>
\* f"{output_dir}.zip"
zip_filename(output_dir) == <<output_dir \o DotZip>>

\* str(row.get(col, ''))
cell_text(row, col) == IF col \in DOMAIN row THEN row[col] ELSE <<>>
\* the names the loop over cell.split(',') looks at: stripped and not empty;
\* none when the stripped cell is empty or one of the skipped words
filenames(row, col, skipped) ==
    IF strip(cell_text(row, col)) = <<>> \/ strip(cell_text(row, col)) \in skipped THEN <<>>
    ELSE SelectSeq(stripped(split(cell_text(row, col), ",")), LAMBDA filename : filename # <<>>)
\* row.get('Name', f'Product {product_id}')
product_name(row) ==
    IF "Name" \in DOMAIN row THEN row["Name"] ELSE ProductLabel \o row["uStore_ProductID"]
\* one file the loop looks for
requests_for(names, product, column, dir) ==
    [n \in 1..Len(names) |->
       [product |-> product, filename |-> names[n], column |-> column,
        source_file |-> Append(dir, names[n])]]
\* the files one row asks for: ContentFile, then Icon, then DetailImage
row_requests(row, assets_path, thumbnails_path, content_skipped) ==
    requests_for(filenames(row, "ContentFile", content_skipped), product_name(row), "ContentFile",
                 content_dir(assets_path, row["uStore_ProductID"]))
    \o requests_for(filenames(row, "Icon", {AutoThumbnailText}), product_name(row), "Icon",
                    thumbnail_dir(thumbnails_path, row["uStore_ProductID"]))
    \o requests_for(filenames(row, "DetailImage", {AutoThumbnailText}), product_name(row), "DetailImage",
                    thumbnail_dir(thumbnails_path, row["uStore_ProductID"]))
\* for idx, row in df.iterrows(): the files rows i.. ask for, in the loop's order
RECURSIVE all_requests(_, _, _, _, _)
all_requests(rows, i, assets_path, thumbnails_path, content_skipped) ==
    IF i > Len(rows) THEN <<>>
    ELSE row_requests(rows[i], assets_path, thumbnails_path, content_skipped)
         \o all_requests(rows, i + 1, assets_path, thumbnails_path, content_skipped)

\* The loop copies a file the first time its name is asked for with a source
\* that exists: files_copied holds a name from then on, and a name in
\* files_copied is skipped.
in_files_copied(d, reqs, k) ==
    \E j \in 1..(k - 1) : reqs[j].filename = reqs[k].filename /\ PathExists(d, reqs[j].source_file)
is_copied_EveryRequest(d, reqs, k) == PathExists(d, reqs[k].source_file)
is_copied(d, reqs, k) == PathExists(d, reqs[k].source_file) /\ ~in_files_copied(d, reqs, k)
not_found(d, reqs, k) == ~PathExists(d, reqs[k].source_file) /\ ~in_files_copied(d, reqs, k)
\* a missing detail image is not recorded when missing_files holds the same
\* product and file name as an icon
is_missing(d, reqs, k) ==
    /\ not_found(d, reqs, k)
    /\ reqs[k].column = "DetailImage" =>
         ~\E j \in 1..(k - 1) : /\ reqs[j].column = "Icon"
                                /\ not_found(d, reqs, j)
                                /\ reqs[j].product = reqs[k].product
                                /\ reqs[j].filename = reqs[k].filename
copied(d, reqs) == { k \in 1..Len(reqs) : is_copied(d, reqs, k) }
files_copied(d, reqs) == { reqs[k].filename : k \in copied(d, reqs) }
copies_of(d, reqs, column) == Cardinality({ k \in copied(d, reqs) : reqs[k].column = column })
source_of(d, reqs, filename) ==
    reqs[CHOOSE k \in copied(d, reqs) : reqs[k].filename = filename].source_file
\* shutil.copy2(source_file, output_path / filename) for every copied file
copy_files(d, reqs, output_path) ==
    [p \in DOMAIN d \cup { Append(output_path, f) : f \in files_copied(d, reqs) } |->
       IF Len(p) = Len(output_path) + 1 /\ Inside(p, output_path) /\ p[Len(p)] \in files_copied(d, reqs)
       THEN d[source_of(d, reqs, p[Len(p)])]
       ELSE d[p]]
missing_requests(d, reqs) ==
    SelectSeq([k \in 1..Len(reqs) |-> IF is_missing(d, reqs, k) THEN <<reqs[k]>> ELSE <<>>],
              LAMBDA r : r # <<>>)
\* stats['missing_files']: (product_name, filename, type) in packager.py,
\* (product_name, filename, type, str(source_file)) in main.py
type_label == [ContentFile |-> "PDF", Icon |-> "Icon", DetailImage |-> "DetailImage"]
missing_files(d, reqs) ==
    [n \in 1..Len(missing_requests(d, reqs)) |->
       <<missing_requests(d, reqs)[n][1].product, missing_requests(d, reqs)[n][1].filename,
         type_label[missing_requests(d, reqs)[n][1].column]>>]
creator_label == [ContentFile |-> "content", Icon |-> "icon", DetailImage |-> "detail"]
missing_files_with_path(d, reqs) ==
    [n \in 1..Len(missing_requests(d, reqs)) |->
       <<missing_requests(d, reqs)[n][1].product, missing_requests(d, reqs)[n][1].filename,
         creator_label[missing_requests(d, reqs)[n][1].column],
         missing_requests(d, reqs)[n][1].source_file>>]

\* columns_to_remove = [col for col in helper_columns if col in df.columns]
columns_to_remove_ProductIdOnly(df) ==
    SelectSeq(<<"uStore_ProductID">>, LAMBDA col : HasColumn(df, col))
columns_to_remove(df) == SelectSeq(helper_columns, LAMBDA col : HasColumn(df, col))
\* df.drop(columns=cols)
drop(df, cols) ==
    Csv(SelectSeq(df.columns, LAMBDA c : c \notin Range(cols)),
        [i \in 1..Len(df.rows) |-> [c \in Range(df.columns) \ Range(cols) |-> df.rows[i][c]]])
df_clean(df) == IF Len(columns_to_remove(df)) > 0 THEN drop(df, columns_to_remove(df)) ELSE df

\* the archive of the files in the staging directory, each under its own name
archive(d, output_path) ==
    Zip([name \in file_names(d, output_path) |-> d[Append(output_path, name)]])
\* products.csv saved into the staging directory, then the zip file replaced
save_and_zip(d, df, output_dir) ==
    WriteFile(WriteFile(d, <<output_dir, ProductsCsv>>, df_clean(df)),
              zip_filename(output_dir),
              archive(WriteFile(d, <<output_dir, ProductsCsv>>, df_clean(df)), <<output_dir>>))
\* the staging directory made afresh
fresh_dir_KeepsFiles(d, output_path) == WriteFile(d, output_path, Dir)
fresh_dir(d, output_path) == WriteFile(rmtree(d, output_path), output_path, Dir)

statistics(d, reqs, df, output_dir, missing) ==
    [products_processed |-> Len(df.rows),
     content_files_copied |-> copies_of(d, reqs, "ContentFile"),
     icon_files_copied |-> copies_of(d, reqs, "Icon"),
     detail_files_copied |-> copies_of(d, reqs, "DetailImage"),
     files_copied |-> files_copied(d, reqs),
     missing_files |-> missing,
     columns |-> Len(df_clean(df).columns),
     staging |-> <<output_dir>>,
     package |-> zip_filename(output_dir)]

\* create_package from the staging directory on: d is the disk with the
\* staging directory made afresh
package(d, df, reqs) ==
    Reported("True", save_and_zip(copy_files(d, reqs, <<PackageName>>), df, PackageName),
             statistics(d, reqs, df, PackageName, missing_files(d, reqs)))
stage(d, df, assets_path, thumbnails_path) ==
    package(d, df, all_requests(df.rows, 1, assets_path, thumbnails_path, {AutoThumbnailText}))
\* (mutant of create_package: the staging directory is made afresh before the
\*  table is read and its column checked, as in main.py)
create_package_StagesFirst(d, input_csv, assets_dir, thumbnails_dir, test_mode) ==
    IF ~PathExists(d, input_csv) THEN Reported("False", d, <<>>)
    ELSE IF ~PathExists(d, assets_dir) THEN Reported("False", d, <<>>)
    ELSE IF ~PathExists(d, thumbnails_dir) THEN Reported("False", d, <<>>)
    ELSE IF ~HasColumn(d[input_csv], "uStore_ProductID")
    THEN Reported("False", fresh_dir(d, <<PackageName>>), <<>>)
    ELSE IF test_mode /\ Len(d[input_csv].rows) = 0 THEN Reported("IndexError", d, <<>>)
    ELSE stage(fresh_dir(d, <<PackageName>>),
               Frame(d[input_csv].columns,
                     IF test_mode THEN head(d[input_csv].rows, 1) ELSE d[input_csv].rows),
               assets_dir, thumbnails_dir)
create_package(d, input_csv, assets_dir, thumbnails_dir, test_mode) ==
    IF ~PathExists(d, input_csv) THEN Reported("False", d, <<>>)
    ELSE IF ~PathExists(d, assets_dir) THEN Reported("False", d, <<>>)
    ELSE IF ~PathExists(d, thumbnails_dir) THEN Reported("False", d, <<>>)
    ELSE IF ~HasColumn(d[input_csv], "uStore_ProductID") THEN Reported("False", d, <<>>)
    ELSE IF test_mode /\ Len(d[input_csv].rows) = 0 THEN Reported("IndexError", d, <<>>)
    ELSE stage(fresh_dir(d, <<PackageName>>),
               Frame(d[input_csv].columns,
                     IF test_mode THEN head(d[input_csv].rows, 1) ELSE d[input_csv].rows),
               assets_dir, thumbnails_dir)

\* main of packager.py; an exception that nothing catches ends the script
\* with status 1
PackagerMain(d, args) ==
    IF Len(args) < 3 THEN [exit |-> 1, ret |-> "none", disk |-> d, report |-> <<>>]
    ELSE exit_report(create_package(d, args[1], args[2], args[3],
                                    IF Len(args) > 3 THEN is_true(args[4]) ELSE FALSE))

\* main.py
creator_package(d, df, reqs, output_dir) ==
    Reported("zip_filename", save_and_zip(copy_files(d, reqs, <<output_dir>>), df, output_dir),
             statistics(d, reqs, df, output_dir, missing_files_with_path(d, reqs)))
creator_stage(d, df, assets_path, thumbnails_path, output_dir) ==
    IF ~PathExists(d, assets_path) THEN Reported("None", d, <<>>)
    ELSE IF ~PathExists(d, thumbnails_path) THEN Reported("None", d, <<>>)
    ELSE creator_package(d, df, all_requests(df.rows, 1, assets_path, thumbnails_path, {}), output_dir)
create_mdsf_package(d, input_csv, assets_dir, thumbnails_dir, output_dir) ==
    IF ~HasColumn(d[input_csv], "uStore_ProductID") THEN Reported("None", d, <<>>)
    ELSE IF Len(d[input_csv].rows) = 0 THEN Reported("IndexError", d, <<>>)
    ELSE IF ~HasColumn(d[input_csv], "Name") THEN Reported("KeyError", d, <<>>)
    ELSE creator_stage(fresh_dir(d, <<output_dir>>),
                       Frame(d[input_csv].columns, head(d[input_csv].rows, 1)),
                       assets_dir, thumbnails_dir, output_dir)

DefaultInput == <<<<"m", "d", "s", "f", "_", "i", "m", "p", "o", "r", "t", ".", "c", "s", "v">>>>
DefaultAssets == <<<<".", ".">>, <<"s", "t", "a", "t", "i", "c", "_", "a", "s", "s", "e", "t", "s">>>>
DefaultThumbnails == <<<<".", ".">>, <<"s", "t", "a", "t", "i", "c", "_", "a", "s", "s", "e", "t", "s", "_", "t", "h", "u", "m", "b", "n", "a", "i", "l", "s">>>>
creator_exit(r) ==
    [exit |-> IF r.ret = "zip_filename" THEN 0 ELSE 1, ret |-> r.ret, disk |-> r.disk,
     report |-> r.report]
creator_checked(d, input_csv, assets_dir, thumbnails_dir, output_dir) ==
    IF ~PathExists(d, input_csv) \/ ~PathExists(d, assets_dir) \/ ~PathExists(d, thumbnails_dir)
    THEN [exit |-> 1, ret |-> "none", disk |-> d, report |-> <<>>]
    ELSE creator_exit(create_mdsf_package(d, input_csv, assets_dir, thumbnails_dir, output_dir))
\* the script part of main.py
CreatorMain(d, args) ==
    IF Len(args) >= 3
    THEN creator_checked(d, args[1], args[2], args[3], IF Len(args) > 3 THEN args[4] ELSE PackageName)
    ELSE creator_checked(d, DefaultInput, DefaultAssets, DefaultThumbnails, PackageName)

\* The disks the packaging scripts are run on
PackagerInput == <<<<"m", "a", "p", "p", "e", "d", ".", "c", "s", "v">>>>
AssetsRoot == <<<<"a", "s", "s", "e", "t", "s">>>>
ThumbnailsRoot == <<<<"t", "h", "u", "m", "b", "s">>>>
OtherPackage == <<"o", "u", "t">>
Id101 == <<"1", "0", "1">>
Id102 == <<"1", "0", "2">>
APdf == <<"a", ".", "p", "d", "f">>
BPdf == <<"b", ".", "p", "d", "f">>
APng == <<"a", ".", "p", "n", "g">>
OldFile == <<"o", "l", "d", ".", "t", "x", "t">>
PackagerColumns ==
    { <<"Name", "ContentFile", "Icon", "DetailImage",
        "uStore_ProductID", "uStore_StoreID", "uStore_StoreName">>,
      <<"uStore_StoreName", "Name", "ContentFile", "uStore_ProductID">>,
      <<"Name", "ContentFile", "Icon">>,
      <<"uStore_ProductID", "ContentFile", "DetailImage">>,
      <<"Name", "DisplayName", "Type", "ContentFile", "uStore_ProductID">>,
      <<"Name", "uStore_StoreID">> }
\* <<Name, uStore_ProductID, ContentFile, Icon, DetailImage>>
PackagerProfiles ==
    { <<<<"C", "a", "r", "d">>, Id101, APdf, APng, APng>>,
      <<<<"F", "l", "y", "e", "r">>, Id102, <<"a", ".", "p", "d", "f", ",", " ", "b", ".", "p", "d", "f">>, AutoThumbnailText, AutoThumbnailText>>,
      <<<<"K", "i", "t">>, Id102, <<>>, <<" ", "a", ".", "p", "n", "g", ",">>, <<"b", ".", "p", "n", "g">>>>,
      <<<<>>, Id101, APdf, <<>>, <<>>>> }
PackagerRows(cols) ==
    { [c \in Range(cols) |->
         CASE c = "Name" -> v[1]
           [] c = "uStore_ProductID" -> v[2]
           [] c = "ContentFile" -> v[3]
           [] c = "Icon" -> v[4]
           [] c = "DetailImage" -> v[5]
           [] c = "DisplayName" -> v[1]
           [] c = "Type" -> (IF v[1] = <<>> THEN <<>> ELSE <<"D", "o", "c", "u", "m", "e", "n", "t">>)
           [] OTHER -> <<"v">>] : v \in PackagerProfiles }
PackagerTables ==
    UNION { { Csv(cols, rows) : rows \in UNION { [1..n -> PackagerRows(cols)] : n \in 0..MaxRows } } :
            cols \in PackagerColumns }
\* the asset files a disk may hold
AssetFiles ==
    { AssetsRoot \o <<product_dir(Id101), APdf>>,
      AssetsRoot \o <<product_dir(Id102), APdf>>,
      AssetsRoot \o <<product_dir(Id102), BPdf>>,
      ThumbnailsRoot \o <<product_dir(Id101), Pages, Thumbnails, APng>> }
AssetSets ==
    { {}, AssetFiles,
      { AssetsRoot \o <<product_dir(Id102), APdf>> },
      { AssetsRoot \o <<product_dir(Id101), APdf>>,
        ThumbnailsRoot \o <<product_dir(Id101), Pages, Thumbnails, APng>> } }
\* the directories above a path
Parents(path) == { SubSeq(path, 1, n) : n \in 1..(Len(path) - 1) }
StaleZip == Zip([name \in {OldFile} |-> File(<<OldFile>>)])
PackagerDisk(table, roots, assets, stale) ==
    [p \in {PackagerInput, AssetsRoot, ThumbnailsRoot, <<PackageName>>, <<PackageName, OldFile>>,
            zip_filename(PackageName)}
           \cup assets \cup UNION { Parents(a) : a \in assets } |->
       IF p = PackagerInput THEN table
       ELSE IF p \in {AssetsRoot, ThumbnailsRoot} THEN (IF p \in roots THEN Dir ELSE NoFile)
       ELSE IF p = <<PackageName>> THEN (IF stale THEN Dir ELSE NoFile)
       ELSE IF p = <<PackageName, OldFile>> THEN (IF stale THEN File(p) ELSE NoFile)
       ELSE IF p = zip_filename(PackageName) THEN (IF stale THEN StaleZip ELSE NoFile)
       ELSE IF p \in assets THEN File(p)
       ELSE Dir]
PackagerDisks ==
    { PackagerDisk(table, {AssetsRoot, ThumbnailsRoot}, assets, stale) :
        table \in {NoFile} \cup PackagerTables, assets \in AssetSets, stale \in BOOLEAN }
    \cup { PackagerDisk(table, roots, {}, FALSE) :
             table \in PackagerTables, roots \in {{AssetsRoot}, {ThumbnailsRoot}} }
PackagerArgs == { <<PackagerInput>>, <<PackagerInput, AssetsRoot, ThumbnailsRoot>> }

PackagerStart ==
    /\ disk \in PackagerDisks
    /\ old_disk = disk
    /\ argv \in PackagerArgs
    /\ phase = "ready"
    /\ ret = "none"
    /\ script_exit = NoExit
    /\ report = <<>>
PackagerInit == PipelineIdle /\ PackagerStart

\* python packager.py <input_csv> <assets_dir> <thumbnails_dir> [test_mode]
RunPackager ==
    /\ phase = "ready"
    /\ \E extra \in {<<>>, <<"true">>, <<"false">>} :
         /\ argv' = argv \o extra
         /\ \E r \in {PackagerMain(disk, argv \o extra)} :
               /\ disk' = r.disk
               /\ ret' = r.ret
               /\ script_exit' = r.exit
               /\ report' = r.report
    /\ old_disk' = disk
    /\ phase' = "done"
    /\ UNCHANGED pipeVars

\* python main.py [<input_csv> <assets_dir> <thumbnails_dir> [output_dir]]
RunCreator ==
    /\ phase = "ready"
    /\ \E extra \in {<<>>, <<OtherPackage>>} :
         /\ argv' = argv \o extra
         /\ \E r \in {CreatorMain(disk, argv \o extra)} :
               /\ disk' = r.disk
               /\ ret' = r.ret
               /\ script_exit' = r.exit
               /\ report' = r.report
    /\ old_disk' = disk
    /\ phase' = "done"
    /\ UNCHANGED pipeVars

PackagerSpec == PackagerInit /\ [][RunPackager \/ RunCreator]_vars

Packaged == phase = "done" /\ script_exit = 0
StagedCsv == disk[Append(report.staging, ProductsCsv)]
ArchivedCsv == disk[report.package].entries[ProductsCsv]
NoHelperColumns(csv) == \A k \in 1..Len(helper_columns) : ~HasColumn(csv, helper_columns[k])

\* C9: after a successful packaging run (packager.py or main.py), products.csv
\* in the staging directory and products.csv in the archive have none of the
\* columns uStore_ProductID, uStore_StoreID, uStore_StoreName, whatever columns
\* the input CSV has.
C9_NoHelperColumnsPackaged ==
    Packaged => NoHelperColumns(StagedCsv) /\ NoHelperColumns(ArchivedCsv)

C9_Witness ==
    /\ Packaged
    /\ ret = "True"
    /\ old_disk[argv[1]].columns =
         <<"Name", "ContentFile", "Icon", "DetailImage",
           "uStore_ProductID", "uStore_StoreID", "uStore_StoreName">>
    /\ Len(old_disk[argv[1]].rows) = 2
    /\ StagedCsv.columns = <<"Name", "ContentFile", "Icon", "DetailImage">>
    /\ ArchivedCsv = StagedCsv
    /\ APdf \in DOMAIN disk[report.package].entries

\* C12: after a successful packaging run, every file name in the ContentFile,
\* Icon or DetailImage cell of a processed row, other than AutoThumbnail, whose
\* source file exists under that row's Product_<id> directory is in the flat
\* staging directory, and each distinct file name is copied once at most over
\* all rows and the three columns.
TestMode == Len(argv) > 3 /\ is_true(argv[4])
ProcessedRows ==
    IF ret = "zip_filename" \/ TestMode
    THEN head(old_disk[argv[1]].rows, 1)
    ELSE old_disk[argv[1]].rows
Referenced(row, col) == Range(filenames(row, col, {})) \ {AutoThumbnailText}
ExpectedPath(row, col, filename) ==
    IF col = "ContentFile"
    THEN Append(content_dir(argv[2], row["uStore_ProductID"]), filename)
    ELSE Append(thumbnail_dir(argv[3], row["uStore_ProductID"]), filename)
C12_ExistingAssetsStagedOnce ==
    Packaged =>
        /\ \A i \in 1..Len(ProcessedRows) :
              \A col \in {"ContentFile", "Icon", "DetailImage"} :
                 \A filename \in Referenced(ProcessedRows[i], col) :
                    PathExists(old_disk, ExpectedPath(ProcessedRows[i], col, filename))
                       => /\ PathExists(disk, Append(report.staging, filename))
                          /\ filename \in report.files_copied
        /\ report.content_files_copied + report.icon_files_copied + report.detail_files_copied
              = Cardinality(report.files_copied)
C12_Witness ==
    /\ Packaged
    /\ ret = "True"
    /\ Len(ProcessedRows) = 2
    /\ APdf \in Referenced(ProcessedRows[1], "ContentFile")
    /\ APdf \in Referenced(ProcessedRows[2], "ContentFile")
    /\ PathExists(old_disk, ExpectedPath(ProcessedRows[1], "ContentFile", APdf))
    /\ PathExists(old_disk, ExpectedPath(ProcessedRows[2], "ContentFile", APdf))
    /\ APng \in Referenced(ProcessedRows[1], "Icon") \cap Referenced(ProcessedRows[1], "DetailImage")
    /\ report.files_copied = {APdf, BPdf, APng}
    /\ report.content_files_copied = 2
    /\ report.icon_files_copied = 1
    /\ report.detail_files_copied = 0
    /\ PathExists(disk, Append(report.staging, APdf))

\* C13: the archive of a successful packaging run is flat: its entries are
\* products.csv and the asset files copied in this run, nothing of an earlier
\* run's staging directory or archive, and no entry name has a directory part.
Archive == disk[report.package]
ExistingReferenced ==
    { filename \in UNION { Referenced(ProcessedRows[i], col) :
                             i \in 1..Len(ProcessedRows),
                             col \in {"ContentFile", "Icon", "DetailImage"} } :
        \E i \in 1..Len(ProcessedRows) : \E col \in {"ContentFile", "Icon", "DetailImage"} :
           /\ filename \in Referenced(ProcessedRows[i], col)
           /\ PathExists(old_disk, ExpectedPath(ProcessedRows[i], col, filename)) }
ReachedRows ==
    /\ phase = "done"
    /\ ret \notin {"none", "False", "None", "IndexError", "KeyError"}
WarnedWithPath(filename, path) ==
    \E n \in 1..Len(report.missing_files) :
       /\ report.missing_files[n][2] = filename
       /\ Len(report.missing_files[n]) = 4
       /\ report.missing_files[n][4] = path
C14_MissingFilesWarnedWithPath ==
    ReachedRows =>
        /\ Packaged
        /\ Archive.kind = "zip"
        /\ \A i \in 1..Len(ProcessedRows) :
              \A col \in {"ContentFile", "Icon", "DetailImage"} :
                 \A filename \in Referenced(ProcessedRows[i], col) :
                    ~PathExists(old_disk, ExpectedPath(ProcessedRows[i], col, filename))
                       => WarnedWithPath(filename, ExpectedPath(ProcessedRows[i], col, filename))

\* C15: no record lacking a required field (Name, DisplayName, Type) is in the
\* archived products.csv of a packaging run unless the packager rejected or
\* flagged it. The packager's report holds file counts and missing asset files
\* only, so a flagged record would have to show there or in a failed run.
CarriesRequired(row) ==
    \A col \in {"Name", "DisplayName", "Type"} : col \in DOMAIN row /\ row[col] # <<>>
\* the table is one the field mapper writes: it has the three columns
FromMapper == \A col \in {"Name", "DisplayName", "Type"} : HasColumn(old_disk[argv[1]], col)
C15_NoRecordLackingRequiredArchived ==
    (Packaged /\ ret = "True" /\ FromMapper) =>
        \A i \in 1..Len(ArchivedCsv.rows) :
           \/ CarriesRequired(ArchivedCsv.rows[i])
           \/ \E n \in 1..Len(report.missing_files) :
                 report.missing_files[n][3] \in {"Name", "DisplayName", "Type"}

-----------------------------------------------------------------------------
(* asset_linker.py. Path.glob lists a directory in the order the file system
   gives its entries, which no code fixes: scan is that order, a sequence of
   the names of the files on the disk, and a directory's files come in the
   order scan has them. (No directory of the disks below has a name that one
   of the patterns matches.) *)

listing(d, dir, scan) == SelectSeq(scan, LAMBDA name : name \in file_names(d, dir))
\* folder.glob("*" + suffix)
glob(names, suffix) == SelectSeq(names, LAMBDA name : EndsWith(name, suffix))
ProofWord == <<"p", "r", "o", "o", "f">>
find_content_files(d, scan, product_id, assets_dir) ==
    IF ~PathExists(d, content_dir(assets_dir, product_id)) THEN <<>>
    ELSE SelectSeq(glob(listing(d, content_dir(assets_dir, product_id), scan), <<".", "p", "d", "f">>),
                   LAMBDA name : ~Contains(lower(name), ProofWord))
\* for ext in image_extensions: image_files.extend(thumbnail_folder.glob(f"*{ext}"))
image_files(names) ==
    glob(names, <<".", "j", "p", "g">>) \o glob(names, <<".", "j", "p", "e", "g">>) \o glob(names, <<".", "p", "n", "g">>)
    \o glob(names, <<".", "g", "i", "f">>) \o glob(names, <<".", "b", "m", "p">>)
find_thumbnail_files(d, scan, product_id, thumbnails_dir) ==
    IF ~PathExists(d, thumbnail_dir(thumbnails_dir, product_id)) THEN <<>>
    ELSE image_files(listing(d, thumbnail_dir(thumbnails_dir, product_id), scan))

CommaSpace == <<",", " ">>
\* the cells a row gets: the joined names, '' when there are none
asset_cell_KeepsPrior(files, prior) == IF Len(files) > 0 THEN join(files, CommaSpace) ELSE prior
asset_cell(files, prior) == IF Len(files) > 0 THEN join(files, CommaSpace) ELSE <<>>
linked_row(row, columns, content_files, thumbnail_files) ==
    [c \in Range(columns) |->
       IF c = "ContentFile" THEN asset_cell(content_files, cell_text(row, c))
       ELSE IF c \in {"Icon", "DetailImage"} THEN asset_cell(thumbnail_files, cell_text(row, c))
       ELSE row[c]]
\* if col not in df.columns: df[col] = ''
asset_columns == <<"ContentFile", "Icon", "DetailImage">>
with_asset_columns(columns) ==
    columns \o SelectSeq(asset_columns, LAMBDA col : col \notin Range(columns))
linked_rows(d, scan, df, columns, assets_path, thumbnails_path) ==
    [i \in 1..Len(df.rows) |->
       linked_row(df.rows[i], columns,
                  find_content_files(d, scan, df.rows[i]["uStore_ProductID"], assets_path),
                  find_thumbnail_files(d, scan, df.rows[i]["uStore_ProductID"], thumbnails_path))]
\* the rows without files: (product_id, product_name)
without(rows, col) ==
    SelectSeq([i \in 1..Len(rows) |->
                 IF rows[i][col] = <<>> THEN <<rows[i]["uStore_ProductID"], product_name(rows[i])>>
                 ELSE <<>>],
              LAMBDA r : r # <<>>)
link_report(rows) ==
    [products |-> Len(rows),
     products_with_pdfs |-> Len(rows) - Len(without(rows, "ContentFile")),
     products_without_pdfs |-> Len(without(rows, "ContentFile")),
     products_with_thumbnails |-> Len(rows) - Len(without(rows, "Icon")),
     products_without_thumbnails |-> Len(without(rows, "Icon")),
     missing_pdfs |-> without(rows, "ContentFile"),
     missing_thumbnails |-> without(rows, "Icon")]
linked(d, output_csv, columns, rows) ==
    Reported("True", WriteFile(d, output_csv, Csv(columns, rows)), link_report(rows))
link_assets(d, scan, input_csv, output_csv, assets_dir, thumbnails_dir) ==
    IF ~PathExists(d, input_csv) THEN Reported("False", d, <<>>)
    ELSE IF ~HasColumn(d[input_csv], "uStore_ProductID") THEN Reported("False", d, <<>>)
    ELSE IF ~PathExists(d, assets_dir) THEN Reported("False", d, <<>>)
    ELSE IF ~PathExists(d, thumbnails_dir) THEN Reported("False", d, <<>>)
    ELSE linked(d, output_csv, with_asset_columns(d[input_csv].columns),
                linked_rows(d, scan, d[input_csv], with_asset_columns(d[input_csv].columns),
                            assets_dir, thumbnails_dir))

\* main of asset_linker.py: with three arguments sys.argv[4] raises IndexError
LinkerMain(d, scan, args) ==
    IF Len(args) < 3 THEN [exit |-> 1, ret |-> "none", disk |-> d, report |-> <<>>]
    ELSE IF Len(args) < 4 THEN [exit |-> 1, ret |-> "IndexError", disk |-> d, report |-> <<>>]
    ELSE exit_report(link_assets(d, scan, args[1], args[2], args[3], args[4]))

\* The disks asset_linker.py is run on
LinkerInput == <<<<"w", "i", "t", "h", "_", "s", "e", "o", ".", "c", "s", "v">>>>
LinkerOutput == <<<<"w", "i", "t", "h", "_", "a", "s", "s", "e", "t", "s", ".", "c", "s", "v">>>>
ProofPdf == <<"a", "_", "P", "R", "O", "O", "F", ".", "p", "d", "f">>
BPng == <<"b", ".", "p", "n", "g">>
CJpg == <<"c", ".", "j", "p", "g">>
LinkerColumns ==
    { <<"Name", "uStore_ProductID">>,
      <<"Name", "ContentFile", "Icon", "DetailImage", "uStore_ProductID">>,
      <<"uStore_ProductID", "Icon">>,
      <<"Name", "ContentFile">> }
LinkerTables ==
    UNION { { Csv(cols, rows) : rows \in UNION { [1..n -> PackagerRows(cols)] : n \in 0..MaxRows } } :
            cols \in LinkerColumns }
ContentOf(id) == content_dir(AssetsRoot, id)
ThumbnailsOf(id) == thumbnail_dir(ThumbnailsRoot, id)
\* the files and the empty directories under the roots
LinkerTrees ==
    { [files |-> {}, dirs |-> {}],
      [files |-> { Append(ContentOf(Id101), APdf), Append(ContentOf(Id101), BPdf),
                   Append(ThumbnailsOf(Id101), APng), Append(ThumbnailsOf(Id101), BPng) },
       dirs |-> {}],
      [files |-> { Append(ContentOf(Id101), APdf), Append(ContentOf(Id101), ProofPdf),
                   Append(ThumbnailsOf(Id102), CJpg), Append(ThumbnailsOf(Id102), APng) },
       dirs |-> { ThumbnailsRoot \o <<product_dir(Id101)>> }],
      [files |-> { Append(ContentOf(Id102), ProofPdf) },
       dirs |-> { ThumbnailsOf(Id102) }] }
LinkerDisk(table, roots, tree, stale) ==
    [p \in {LinkerInput, LinkerOutput, AssetsRoot, ThumbnailsRoot}
           \cup tree.files \cup tree.dirs \cup UNION { Parents(a) : a \in tree.files \cup tree.dirs } |->
       IF p = LinkerInput THEN table
       ELSE IF p = LinkerOutput THEN (IF stale THEN Csv(<<"Name">>, <<[Name |-> <<"S", "t", "a", "l", "e">>]>>) ELSE NoFile)
       ELSE IF p \in {AssetsRoot, ThumbnailsRoot} THEN (IF p \in roots THEN Dir ELSE NoFile)
       ELSE IF p \in tree.files THEN File(p)
       ELSE Dir]
LinkerDisks ==
    { LinkerDisk(table, {AssetsRoot, ThumbnailsRoot}, tree, stale) :
        table \in {NoFile} \cup LinkerTables, tree \in LinkerTrees, stale \in BOOLEAN }
    \cup { LinkerDisk(table, roots, [files |-> {}, dirs |-> {}], FALSE) :
             table \in LinkerTables, roots \in {{AssetsRoot}, {ThumbnailsRoot}} }
LinkerArgs ==
    { <<LinkerInput>>, <<LinkerInput, LinkerOutput, AssetsRoot>>,
      <<LinkerInput, LinkerOutput, AssetsRoot, ThumbnailsRoot>> }

\* the orders a file system may list files in
FileNamesOn(d) == { p[Len(p)] : p \in { q \in DOMAIN d : Len(q) > 1 /\ d[q].kind = "file" } }
Orderings(S) == { s \in [1..Cardinality(S) -> S] : Range(s) = S }

LinkerStart ==
    /\ disk \in LinkerDisks
    /\ old_disk = disk
    /\ argv \in LinkerArgs
    /\ phase = "ready"
    /\ ret = "none"
    /\ script_exit = NoExit
    /\ report = <<>>
LinkerInit == PipelineIdle /\ LinkerStart

\* python asset_linker.py <input_csv> <output_csv> <assets_dir> <thumbnails_dir>
RunLinker ==
    /\ phase = "ready"
    /\ \E scan \in Orderings(FileNamesOn(disk)) :
         \E r \in {LinkerMain(disk, scan, argv)} :
            /\ disk' = r.disk
            /\ ret' = r.ret
            /\ script_exit' = r.exit
            /\ report' = r.report
    /\ old_disk' = disk
    /\ phase' = "done"
    /\ UNCHANGED <<argv, pipeVars>>

LinkerSpec == LinkerInit /\ [][RunLinker]_vars

\* link_assets has run on a readable table with uStore_ProductID and with both
\* asset roots on the disk
LinkerRan ==
    /\ phase = "done"
    /\ Len(argv) = 4
    /\ PathExists(old_disk, argv[1])
    /\ HasColumn(old_disk[argv[1]], "uStore_ProductID")
    /\ PathExists(old_disk, argv[3])
    /\ PathExists(old_disk, argv[4])
NoContentDir(row) == ~PathExists(old_disk, content_dir(argv[3], row["uStore_ProductID"]))
NoThumbnailDir(row) == ~PathExists(old_disk, thumbnail_dir(argv[4], row["uStore_ProductID"]))

-----------------------------------------------------------------------------
(* The five step scripts side by side: one of them is run on its own. *)

ScriptsInit ==
    \/ Standalone("store_filter.py") /\ FilterStart
    \/ Standalone("SEO_generator.py") /\ SeoStart
    \/ Standalone("asset_linker.py") /\ LinkerStart
    \/ Standalone("fields_mapper.py") /\ MapperStart
    \/ Standalone("packager.py") /\ PackagerStart

ScriptsNext ==
    \/ pc = "store_filter.py" /\ RunFilter
    \/ pc = "SEO_generator.py" /\ RunSeo
    \/ pc = "asset_linker.py" /\ RunLinker
    \/ pc = "fields_mapper.py" /\ RunMapper
    \/ pc = "packager.py" /\ RunPackager

ScriptsSpec == ScriptsInit /\ [][ScriptsNext]_vars

\* the step function was called (main got the arguments it needs) ...
StepCalled ==
    /\ phase = "done"
    /\ CASE pc = "store_filter.py" -> Len(argv) = 3 /\ ~IsListWord(argv[3])
         [] pc = "SEO_generator.py" -> Len(argv) >= 1
         [] pc = "asset_linker.py" -> Len(argv) >= 4
         [] pc = "fields_mapper.py" -> Len(argv) >= 1
         [] pc = "packager.py" -> Len(argv) >= 3
\* ... on an input file that does not exist
InputMissing ==
    IF pc \in {"asset_linker.py", "packager.py"}
    THEN ~PathExists(old_disk, argv[1])
    ELSE ~Exists(old_disk, argv[1])
\* ... or on a table without the column the step requires
RequiredColumn ==
    CASE pc = "store_filter.py" ->
           (IF argv[3] \in DOMAIN IntOf /\ IntOf[argv[3]] # 0
            THEN "uStore_StoreID" ELSE "uStore_StoreName")
      [] pc = "SEO_generator.py" -> "Name"
      [] pc \in {"asset_linker.py", "packager.py"} -> "uStore_ProductID"
ColumnMissing ==
    /\ pc # "fields_mapper.py"
    /\ ~InputMissing
    /\ ~HasColumn(old_disk[argv[1]], RequiredColumn)

\* C18: every step function returns failure when its input file does not
\* exist, and the filter, SEO, linker and packager steps when the column they
\* require (store column, Name, uStore_ProductID) is missing; the step then
\* writes no output file and changes nothing on disk, and its script exits
\* non-zero.
C18_BadInputFailsDiskUntouched ==
    (StepCalled /\ (InputMissing \/ ColumnMissing)) =>
        /\ ret = "False"
        /\ script_exit # 0 /\ script_exit # NoExit
        /\ disk = old_disk
C18_Witness ==
    /\ StepCalled /\ ColumnMissing
    /\ pc = "packager.py"
    /\ PathExists(old_disk, <<PackageName, OldFile>>)
    /\ old_disk[zip_filename(PackageName)] = StaleZip
    /\ ret = "False"
    /\ disk = old_disk

\* C22: with the auto-thumbnail flag enabled every record map_to_mdsf writes
\* has Icon = DetailImage = 'AutoThumbnail' whatever the source holds, and
\* packager.py, given records whose Icon and DetailImage are 'AutoThumbnail',
\* copies no icon or detail-image file and records none as missing; with the
\* flag disabled the Icon and DetailImage values of the source are written
\* as they are.
AutoThumbnailFlag == IF Len(argv) > 2 THEN is_true(argv[3]) ELSE TRUE
MappedSource ==
    IF Len(argv) > 3 /\ is_true(argv[4])
    THEN head(old_disk[argv[1]].rows, IF Len(argv) > 4 THEN parse_limit(argv[5]) ELSE 1)
    ELSE old_disk[argv[1]].rows
AllAutoThumbnail(rows) ==
    \A i \in 1..Len(rows) :
       /\ "Icon" \in DOMAIN rows[i] /\ rows[i]["Icon"] = AutoThumbnailText
       /\ "DetailImage" \in DOMAIN rows[i] /\ rows[i]["DetailImage"] = AutoThumbnailText
lower_str(value) == IF value THEN "true" ELSE "false"
TestLimits == {1, 2}
limit_str(n) == IF n = 1 THEN "1" ELSE "2"
step_4_arguments(cfg, input_file, output_file) ==
    <<input_file, output_file, lower_str(cfg.use_auto_thumbnail), lower_str(cfg.test_mode),
      limit_str(cfg.test_product_limit)>>
step_5_arguments(cfg, input_file, assets_dir, thumbnails_dir) ==
    <<input_file, assets_dir, thumbnails_dir, lower_str(cfg.test_mode)>>
TestConfigs ==
    [use_auto_thumbnail : BOOLEAN, test_mode : BOOLEAN, test_product_limit : TestLimits]
\* as many rows, the products in the same order
RowsKept(source, target) ==
    /\ Len(target) = Len(source)
    /\ \A i \in 1..Len(source) :
          "Name" \in DOMAIN source[i] => target[i]["Name"] = source[i]["Name"]
MapperCalledWith(cfg) ==
    /\ pc = "fields_mapper.py" /\ MapperDone
    /\ HasColumn(old_disk[MapperInput], "Name")
    /\ argv = step_4_arguments(cfg, MapperInput, MapperOutput)
PackagerCalledWith(cfg) ==
    /\ pc = "packager.py" /\ Packaged
    /\ argv = step_5_arguments(cfg, PackagerInput, AssetsRoot, ThumbnailsRoot)
\* in test mode the mapper writes the first N rows it read
MapperEmitsFirstN ==
    \A cfg \in TestConfigs :
       (cfg.test_mode /\ MapperCalledWith(cfg)) =>
          RowsKept(head(old_disk[MapperInput].rows,
                        Min({cfg.test_product_limit, Len(old_disk[MapperInput].rows)})),
                   disk[MapperOutput].rows)
\* in test mode the packager archives every row the mapper emitted, which are
\* at most N
PackagerArchivesWhatMapperEmitted ==
    \A cfg \in TestConfigs :
       (cfg.test_mode /\ PackagerCalledWith(cfg)
          /\ Len(old_disk[PackagerInput].rows) <= cfg.test_product_limit) =>
          Len(ArchivedCsv.rows) = Len(old_disk[PackagerInput].rows)
\* without test mode the steps from SEO generation to packaging keep the
\* number and the order of the rows
StepsKeepRows ==
    /\ (pc = "SEO_generator.py" /\ SeoDone) =>
          RowsKept(old_disk[argv[1]].rows, disk[SeoWritten].rows)
    /\ (pc = "asset_linker.py" /\ phase = "done" /\ script_exit = 0) =>
          RowsKept(old_disk[argv[1]].rows, disk[argv[2]].rows)
    /\ \A cfg \in TestConfigs :
          /\ (~cfg.test_mode /\ MapperCalledWith(cfg)) =>
                RowsKept(old_disk[MapperInput].rows, disk[MapperOutput].rows)
          /\ (~cfg.test_mode /\ PackagerCalledWith(cfg)) =>
                RowsKept(old_disk[PackagerInput].rows, ArchivedCsv.rows)
\* C29: in a pipeline run with test_mode enabled and test_product_limit = N
\* the archived products.csv has as many rows as the mapper emitted, which is
\* min(N, number of rows the mapper read); with test_mode disabled every step
\* from SEO generation to packaging keeps the number and the order of the rows.
C29_TestModeArchivesMapperRows ==
    MapperEmitsFirstN /\ PackagerArchivesWhatMapperEmitted /\ StepsKeepRows
\* all of it but the packager in test mode
C29_MapperLimitAndRowsKept == MapperEmitsFirstN /\ StepsKeepRows

-----------------------------------------------------------------------------
(* Invocations of orchestrator.py, one after another on the same disk: main()
   constructs the pipeline (load_config, then the log file's name from the
   clock, to the second) and run() appends its lines to the log file. The
   clock is read in ticks of a fraction of a second and never goes back. *)

MaxInvocations == 3
MaxTicks == 4
TicksPerSecond == 2

ConfigPath == <<"pipeline_config.json">>
\* project_dir / f"migration_log_{datetime.now().strftime('%Y%m%d_%H%M%S')}.txt"
strftime(now) == now \div TicksPerSecond
log_file(now) == <<"migration_log", strftime(now)>>

\* load_config's else branch: json.dump(default_config) into the missing file
created(d) ==
    IF d[ConfigPath].exists THEN d
    ELSE [d EXCEPT ![ConfigPath] = [exists |-> TRUE, doc |-> default_config]]
\* log: open(self.log_file, 'a') and write; lines stands for the lines of one run
logged(d, path, lines) ==
    IF path \in DOMAIN d
    THEN [d EXCEPT ![path] = [kind |-> "log", lines |-> @.lines \o lines]]
    ELSE [q \in DOMAIN d \cup {path} |->
            IF q = path THEN [kind |-> "log", lines |-> lines] ELSE d[q]]

InvocationConfigs ==
    { [exists |-> FALSE, doc |-> <<>>],
      [exists |-> TRUE, doc |-> [store_id |-> 71]],
      [exists |-> TRUE, doc |-> [test_mode |-> TRUE]],
      [exists |-> TRUE, doc |-> [steps |-> [filter |-> [enabled |-> FALSE]]]],
      [exists |-> TRUE, doc |-> [paths |-> [output_dir |-> "out"]]],
      [exists |-> TRUE, doc |-> default_config] }

InvocationsInit ==
    /\ Standalone("orchestrator.py")
    /\ disk \in { [q \in {ConfigPath} |-> f] : f \in InvocationConfigs }
    /\ old_disk = disk
    /\ argv = <<>>
    /\ phase = "ready"
    /\ ret = "none"
    /\ script_exit = NoExit
    /\ report = <<>>

LastTick == IF calls = <<>> THEN 0 ELSE calls[Len(calls)].now

\* python orchestrator.py, started when the clock reads now
Invoke(now) ==
    /\ pc = "orchestrator.py"
    /\ Len(calls) < MaxInvocations
    /\ now >= LastTick
    /\ config' = load_config(disk[ConfigPath])
    /\ disk' = logged(created(disk), log_file(now), <<Len(calls) + 1>>)
    /\ old_disk' = disk
    /\ calls' = Append(calls, [now |-> now,
                               config |-> load_config(disk[ConfigPath]),
                               config_before |-> disk[ConfigPath],
                               config_after |-> created(disk)[ConfigPath],
                               log_file |-> log_file(now)])
    /\ UNCHANGED <<fs, pc, blk, start_from_step, state, current_file, final_package,
                   banners, hint, exit_code, argv, phase, ret, script_exit, report>>

InvocationsNext == \E now \in 0..MaxTicks : Invoke(now)

InvocationsSpec == InvocationsInit /\ [][InvocationsNext]_vars

\* C20: constructing the pipeline when the configuration file does not exist
\* creates the file with the default configuration and uses the defaults;
\* when the file exists it is left as it was; every invocation writes its log
\* to a timestamped log file of its own.
C20_ConfigCreatedLogOfItsOwn ==
    \A i \in 1..Len(calls) :
        /\ ~calls[i].config_before.exists =>
              /\ calls[i].config_after = [exists |-> TRUE, doc |-> default_config]
              /\ calls[i].config = default_config
        /\ calls[i].config_before.exists => calls[i].config_after = calls[i].config_before
        /\ disk[calls[i].log_file].lines = <<i>>
        /\ \A j \in 1..Len(calls) : j # i => calls[j].log_file # calls[i].log_file
\* The configuration file half, which holds.
C20_ConfigCreatedOrUntouched ==
    \A i \in 1..Len(calls) :
        /\ ~calls[i].config_before.exists =>
              /\ calls[i].config_after = [exists |-> TRUE, doc |-> default_config]
              /\ calls[i].config = default_config
        /\ calls[i].config_before.exists => calls[i].config_after = calls[i].config_before

\* the value a setting has after a merge in which the file's value wins
FileOrDefault(loaded, default, e) == IF e \in DOMAIN loaded THEN loaded[e] ELSE default[e]
\* the top-level settings: the file's value where it gives one, else the default
TopLevelMerged(doc, cfg) ==
    /\ \A k \in DOMAIN doc \ {"paths", "database", "steps"} : cfg[k] = doc[k]
    /\ \A k \in DOMAIN default_config \ DOMAIN doc : cfg[k] = default_config[k]
\* the entries of a group of settings ('paths', 'database', one step)
GroupMerged(loaded, default, merged) ==
    \A e \in DOMAIN default :
       e \in DOMAIN merged /\ merged[e] = FileOrDefault(loaded, default, e)
Given(doc, k) == IF k \in DOMAIN doc THEN doc[k] ELSE <<>>
\* C30: load_config merges the loaded file with the defaults, the file's
\* values winning: every setting the file gives has the file's value and every
\* setting it does not give, the entries of each step under 'steps' and the
\* entries under 'paths' included, has its default value, so that every
\* step's configuration entry is present after loading any file.
C30_EverySettingFileOrDefault ==
    \A i \in 1..Len(calls) :
       calls[i].config_before.exists =>
          /\ TopLevelMerged(calls[i].config_before.doc, calls[i].config)
          /\ \A g \in {"paths", "database"} :
                GroupMerged(Given(calls[i].config_before.doc, g), default_config[g],
                            calls[i].config[g])
          /\ \A n \in DOMAIN default_config.steps :
                /\ n \in DOMAIN calls[i].config.steps
                /\ GroupMerged(Given(Given(calls[i].config_before.doc, "steps"), n),
                               default_config.steps[n], calls[i].config.steps[n])
\* The merge of the top-level settings, which holds.
C30_TopLevelSettingsMerged ==
    \A i \in 1..Len(calls) :
       calls[i].config_before.exists =>
          /\ TopLevelMerged(calls[i].config_before.doc, calls[i].config)
          /\ \A k \in DOMAIN calls[i].config_before.doc :
                calls[i].config[k] = calls[i].config_before.doc[k]
====
